---- MODULE Spec2Model ----
(***************************************************************************)
(* Model of the space runtime: the dispatch executor and the intent        *)
(* matcher (handler.py), the progress store and its subscriber queue       *)
(* (shared_libs/libs/streaming.py) and the fan-out / fan-in pattern of     *)
(* the workflows under spaces/.                                            *)
(*                                                                         *)
(* Spec follows one request from the transport route through               *)
(* SpaceExecutor.execute into the entry point, across the suspension       *)
(* points of the workflow (planning call, stage 1, concurrent stages) and  *)
(* back to the response, with the events it records and their mirror on    *)
(* the subscriber queue.  StoreSpec follows the requests of the route in   *)
(* a process whose store other requests write too.  MatchSpec follows a    *)
(* match or plan request through the rule tier, the semantic tier and the  *)
(* planning call, and the match-and-execute route.  LiveSpec is Spec with   *)
(* the fairness of the scheduler.  KeySpec follows the requests of the     *)
(* route when their caller has set API-key overrides, DrainSpec a caller   *)
(* that drains the store and keeps the lists, ScoreSpec one call of        *)
(* _calculate_score.  External collaborators (chat, image generation,      *)
(* storage, the intent model) are nondeterministic choices over the        *)
(* outcomes they can have.                                                 *)
(***************************************************************************)
EXTENDS Integers, Sequences, FiniteSets, TLC

\* ---------------------------------------------------------------- bounds
MaxVariations == 3   \* largest num_variations a request carries
MaxPrompts == 3      \* largest number of prompts a planning reply carries
MaxForeign == 1      \* most events other requests record in the shared store
MaxKeywords == 4     \* most keywords of one space that occur in a prompt
MaxPatterns == 2     \* most patterns of one space that match a prompt
MaxSteps == 2        \* most steps a planning reply of the /plan route carries

\* ------------------------------------------------------- static tables
\* handler.py SPACE_MODULES: space_id -> (entry point, call_style); is_coroutine
\* is what asyncio.iscoroutinefunction sees for the entry point.
SPACE_MODULES ==
    ("product-swap" :> [func |-> "product_swap_workflow", call_style |-> "kwargs", is_coroutine |-> TRUE])
 @@ ("steal-the-look" :> [func |-> "steal_the_look_workflow", call_style |-> "kwargs", is_coroutine |-> TRUE])
 @@ ("sketch-to-product" :> [func |-> "_sketch_to_product_workflow", call_style |-> "body", is_coroutine |-> TRUE])
 @@ ("background-remover" :> [func |-> "_remove_background", call_style |-> "body", is_coroutine |-> TRUE])
 @@ ("store-display-banner" :> [func |-> "store_display_banner_execute", call_style |-> "body", is_coroutine |-> FALSE])

\* The multiproduct try-on workflow exists under spaces/ but has no row in
\* SPACE_MODULES; its entry point is called directly.
MULTIPRODUCT == "multiproduct-tryon"

\* Ids a request may name: the dispatch table, the try-on workflow and an id
\* that is nowhere.
SpaceIds == DOMAIN SPACE_MODULES \cup {MULTIPRODUCT, "no-such-space"}

\* Workflows that fan out over generation stages.
FanOutSpaces == {"product-swap", "steal-the-look", "sketch-to-product",
                 "store-display-banner", MULTIPRODUCT}

\* Contents registry.json may have (load_registry returns no spaces when the
\* file is missing).
Registries == { {}, DOMAIN SPACE_MODULES, DOMAIN SPACE_MODULES \cup {MULTIPRODUCT} }

\* What the caller puts into the inputs of a request.
InputKinds == {"valid", "empty_required", "bad_signature"}

\* ------------------------------------------------------------- messages
Msg(tag, stage) == [tag |-> tag, stage |-> stage]

\* A produced artifact / a raw error dict of generate_image.
Asset(u) == [url |-> u, error |-> FALSE]
ErrorDict == [url |-> 0, error |-> TRUE]

\* A result dict as the entry point or execute returns it.
Result(hs, s, assets, err) ==
    [has_success |-> hs, success |-> s, outputAssets |-> assets, error |-> err]

NoResult == Result(FALSE, FALSE, <<>>, <<>>)

\* {success: False, error: str(e), outputAssets: []}
Failure(err) == Result(TRUE, FALSE, <<>>, err)

\* {metadata: {...}, outputAssets: []} : the early returns of product_swap
\* and steal_the_look carry no 'success' key.
MetadataOnly == Result(FALSE, FALSE, <<>>, <<>>)

\* The event dicts of stream_progress / stream_image.  req tells which request
\* made the call (the dicts themselves carry a timestamp only).
ProgressEvent(id, status) == [type |-> "progress", id |-> id, status |-> status, req |-> "this"]
ImageEvent(u, l) == [type |-> "image", url |-> u, label |-> l, req |-> "this"]

\* An event another request records: before this request started ("earlier")
\* or while it runs ("concurrent").
ForeignEvent(type, when) ==
    IF type = "progress"
    THEN [type |-> "progress", id |-> "analyze-request", status |-> "completed", req |-> when]
    ELSE [type |-> "image", url |-> 0, label |-> 0, req |-> when]

\* The request context: what _request_queue.get(None) and
\* _request_loop.get(None) give in it.
NoContext == [queue |-> FALSE, loop |-> FALSE]

\* set_request_queue(queue, loop): both context variables are set together.
set_request_queue == [queue |-> TRUE, loop |-> TRUE]

\* ---------------------------------------------------------------- state
VARIABLES
    registry,        \* ids listed in REGISTRY["spaces"]
    pc,              \* position of the request
    via,             \* "http" (execute_space route) or "direct" (entry point called)
    space,           \* the space_id of the request
    num_variations,  \* num_variations as the workflow uses it
    stages,          \* per stage: st (waiting/running/settled), gen (outcome), ref
    tasks,           \* indices of the concurrently launched stages, submission order
    completed,       \* indices of settled concurrent stages, completion order
    errors,          \* the workflow's list of captured error messages
    failed,          \* stages the fan-in loop took its failure branch for
    result,          \* dict returned by execute / the entry point
    outcome,         \* "pending", "returned", "raised" (ValueError out of execute)
    http_status,     \* 0 while pending or direct, else status of the response
    invoked,         \* number of entry point invocations
    generation_calls,\* number of generate_image calls made
    events,          \* _store.events
    images,          \* _store.images
    caught,          \* exception raised by load-and-run of the entry point, or "none"
    subscriber,      \* the caller attached a queue with set_request_queue
    ctx,             \* the context the workflow records its events in
    thread,          \* thread the entry point runs on: "loop" or "worker"
    run_queue,       \* callbacks call_soon_threadsafe put on the owning loop
    queue,           \* the subscriber queue
    recorded,        \* events this request recorded, in call order
    foreign,         \* number of events other requests recorded
    cleared,         \* clear_events was called and nothing was recorded since
    reset_after,     \* clear_events was called after this request had completed
    use_llm,         \* use_llm of the match request
    rule_result,     \* result of the rule tier of the match request
    llm_reply,       \* reply of the semantic collaborator, once it has come
    llm_calls,       \* number of POSTs made to the semantic collaborator
    match_result,    \* MatchResult that SpaceMatcher.match returned
    match_outcome,   \* "pending", "returned" or "raised"
    prompt,          \* the prompt of the match request, as the rule tier sees it
    scores,          \* score _calculate_score gave each registered space for it
    api_key,         \* GEMINI_API_KEY is set in the environment of the request
    task_plan,       \* TaskPlan that plan_task returned
    plan_calls,      \* number of POSTs _create_task_plan made
    calls,           \* how the entry point was called: one call style per call
    entry_result,    \* how load-and-run of the entry point ended
    planned,         \* prompts the planning reply left the workflow with
    score_args,      \* keywords and patterns of a call of _calculate_score
    score_ret,       \* the (score, matched_keywords) pair the call returned
    metadata,        \* metadata.matched of the SpaceOutput of match_and_execute
    held,            \* the lists a caller got from the getters, and kept
    request_keys,    \* the key overrides set in the context of the request
    keys_used        \* the key each chat and image-generation call was made with

vars == <<registry, pc, via, space, num_variations, stages, tasks, completed,
          errors, failed, result, outcome, http_status, invoked,
          generation_calls, events, images, caught, subscriber, ctx, thread,
          run_queue, queue, recorded, foreign, cleared, reset_after,
          use_llm, rule_result, llm_reply, llm_calls, match_result, match_outcome,
          prompt, scores, api_key, task_plan, plan_calls, calls, entry_result,
          planned, score_args, score_ret, metadata, held, request_keys,
          keys_used>>

\* a call of _calculate_score
score_vars == <<score_args, score_ret>>

\* the event bus and its subscriber side
bus_vars == <<events, images, run_queue, queue, recorded, cleared>>

\* the state of a match request
match_vars == <<use_llm, rule_result, llm_reply, llm_calls, match_result, match_outcome,
                prompt, scores, api_key, task_plan, plan_calls>>

\* MatchResult(matched, space, confidence); confidence is counted in tenths
\* (8 is 0.8), space is the id of the SpaceInfo or "" for None.
MatchResult(m, sp, conf) == [matched |-> m, space |-> sp, confidence |-> conf]

\* MatchResult(matched=False, confidence=0.0)
NoMatch == MatchResult(FALSE, "", 0)

\* No reply of the semantic collaborator (yet).
NoReply == [kind |-> "none", matched |-> FALSE, confidence |-> 0, space_id |-> ""]

\* What a prompt is to the rule tier: for every space the number of its
\* keywords that occur in the prompt and the number of its patterns that
\* match it.
NoHit == [kw |-> 0, pat |-> 0]
NoPrompt == [sid \in SpaceIds |-> NoHit]

\* TaskPlan(is_simple, matched_space, confidence, steps); steps is the number
\* of PlanStep entries, matched_space the id of the SpaceInfo or "" for None.
TaskPlan(simple, sp, conf, n) ==
    [is_simple |-> simple, matched_space |-> sp, confidence |-> conf, steps |-> n]

\* No plan returned (yet).
NoPlan == TaskPlan(FALSE, "", 0, 0)

\* The entry point was not called (yet).
NotPlanned == [n |-> -1, prompts |-> <<>>]
NoKeys == [gemini |-> FALSE, openai |-> FALSE]
NotHeld == [taken |-> FALSE, mutated |-> FALSE,
            progress |-> [items |-> <<>>, shared |-> FALSE],
            images |-> [items |-> <<>>, shared |-> FALSE],
            returned |-> [progress |-> <<>>, images |-> <<>>],
            mark |-> [recorded |-> 0, foreign |-> 0, cleared |-> FALSE]]
NoArgs == [keywords |-> <<>>, patterns |-> <<>>]
NoScore == [score |-> -1, matched_keywords |-> <<>>]
NoCall == [kind |-> "none", exc |-> "", stage |-> 0, res |-> NoResult]

Stage(st, gen, ref) == [st |-> st, gen |-> gen, ref |-> ref]

Init ==
    /\ registry \in Registries
    /\ pc = "idle"
    /\ via = "none"
    /\ space = ""
    /\ num_variations = 0
    /\ stages = <<>>
    /\ tasks = <<>>
    /\ completed = <<>>
    /\ errors = <<>>
    /\ failed = <<>>
    /\ result = NoResult
    /\ outcome = "pending"
    /\ http_status = 0
    /\ invoked = 0
    /\ generation_calls = 0
    /\ events = <<>>
    /\ images = <<>>
    /\ caught = "none"
    /\ subscriber = FALSE
    /\ ctx = NoContext
    /\ thread = "none"
    /\ run_queue = <<>>
    /\ queue = <<>>
    /\ recorded = <<>>
    /\ foreign = 0
    /\ cleared = FALSE
    /\ reset_after = FALSE
    /\ use_llm = FALSE
    /\ rule_result = NoMatch
    /\ llm_reply = NoReply
    /\ llm_calls = 0
    /\ match_result = NoMatch
    /\ match_outcome = "pending"
    /\ prompt = NoPrompt
    /\ scores = [sid \in SpaceIds |-> 0]
    /\ api_key = FALSE
    /\ task_plan = NoPlan
    /\ plan_calls = 0
    /\ calls = <<>>
    /\ entry_result = NoCall
    /\ planned = NotPlanned
    /\ score_args = NoArgs
    /\ score_ret = NoScore
    /\ metadata = "none"
    /\ held = NotHeld
    /\ request_keys = NoKeys
    /\ keys_used = {}

\* ------------------------------------------------------------ event bus
\* The store and the subscriber side as one value the recording functions
\* transform.
Bus == [events |-> events, images |-> images, run_queue |-> run_queue, queue |-> queue]

\* Variant of _enqueue that puts the event into the queue itself, on the
\* calling thread.
_enqueue_direct(c, b, event) ==
    IF ~c.queue THEN b
    ELSE [b EXCEPT !.queue = Append(@, event)]

\* _enqueue: no queue in the context: return; with a loop the put is scheduled
\* on the loop (call_soon_threadsafe), without one the queue is written.
_enqueue(c, b, event) ==
    IF ~c.queue THEN b
    ELSE IF c.loop THEN [b EXCEPT !.run_queue = Append(@, event)]
    ELSE [b EXCEPT !.queue = Append(@, event)]

\* Variant of stream_progress that returns before the append when there is no
\* queue.
stream_progress_queue_only(c, b, event) ==
    IF ~c.queue THEN b
    ELSE _enqueue(c, [b EXCEPT !.events = Append(@, event)], event)

\* stream_progress: append to _store.events, then _enqueue
stream_progress(c, b, event) ==
    _enqueue(c, [b EXCEPT !.events = Append(@, event)], event)

\* Variant of stream_image without the _enqueue call.
stream_image_unmirrored(c, b, event) ==
    [b EXCEPT !.images = Append(@, event)]

\* stream_image: append to _store.images, then _enqueue
stream_image(c, b, event) ==
    _enqueue(c, [b EXCEPT !.images = Append(@, event)], event)

\* The calls a step of the workflow makes, in call order.
RECURSIVE RecordAll(_, _, _)
RecordAll(c, b, ops) ==
    IF ops = <<>> THEN b
    ELSE RecordAll(c,
                   IF Head(ops).type = "progress"
                   THEN stream_progress(c, b, Head(ops))
                   ELSE stream_image(c, b, Head(ops)),
                   Tail(ops))

Record(c, ops) ==
    \E b \in {RecordAll(c, Bus, ops)} :
    /\ events' = b.events
    /\ images' = b.images
    /\ run_queue' = b.run_queue
    /\ queue' = b.queue
    /\ recorded' = recorded \o ops
    /\ cleared' = (cleared /\ ops = <<>>)

\* get_progress_events / get_image_events return a copy of the list
get_progress_events == events
get_image_events == images

\* A list in the hands of a caller: its items, and whether it is the list
\* object of the store itself.
\* Variant of list_copy that hands out the list of the store.
list_itself(l) == [items |-> l, shared |-> TRUE]

\* _store.events.copy(): a new list with the same items
list_copy(l) == [items |-> l, shared |-> FALSE]

\* What a caller can do to a list it holds: append an item, remove the last
\* one, empty the list.
ListOps == {"append", "pop", "clear"}
CallerItem == [type |-> "progress", id |-> "added-by-caller", status |-> "", req |-> "caller"]
mutate(l, op) ==
    CASE op = "append" -> Append(l, CallerItem)
      [] op = "pop" -> IF l = <<>> THEN l ELSE SubSeq(l, 1, Len(l) - 1)
      [] op = "clear" -> <<>>

\* how far the store had been written when the caller took its lists
StoreMark == [recorded |-> Len(recorded), foreign |-> foreign, cleared |-> cleared]

\* ------------------------------------------------- completions of a call
\* How a call ends: it returns a dict or raises an exception.
Returned(res) == [kind |-> "return", exc |-> "", stage |-> 0, res |-> res]
Raised(exc, stage) == [kind |-> "raise", exc |-> exc, stage |-> stage, res |-> NoResult]

\* Variant of execute_except without the "except Exception" clause: whatever
\* the entry point raises leaves execute as an exception.
execute_except_reraise(ep) ==
    IF ep.kind = "return" THEN ep ELSE Raised("ValueError", 0)

\* SpaceExecutor.execute, the except clauses around load-and-run: ImportError
\* is re-raised as ValueError, any other Exception becomes a failure dict.
execute_except(ep) ==
    IF ep.kind = "return" THEN ep
    ELSE IF ep.exc = "ImportError" THEN Raised("ValueError", 0)
    ELSE Returned(Failure(<<Msg("exception", ep.stage)>>))

\* SpaceOutput(**result): pydantic rejects a dict without the required bool
\* 'success' with a ValidationError, which is a ValueError.
SpaceOutputValid(res) == res.has_success

\* execute_space after the registry check: ValueError -> 400, else 200.
execute_space_status(ex) ==
    IF ex.kind = "raise" THEN 400
    ELSE IF SpaceOutputValid(ex.res) THEN 200
    ELSE 400

\* execute (or, for a direct call, the entry point) completed with ex; the
\* route maps it to the status of the response.
Respond(v, ex) ==
    /\ result' = ex.res
    /\ outcome' = IF ex.kind = "raise" THEN "raised" ELSE "returned"
    /\ http_status' = IF v = "http" THEN execute_space_status(ex) ELSE 0
    /\ pc' = "done"

\* The entry point completed with ep; v says who called it.  caught is the
\* exception that reached the except clauses of the caller, if any.
Complete(v, ep) ==
    /\ Respond(v, IF v = "direct" THEN ep ELSE execute_except(ep))
    /\ caught' = IF ep.kind = "raise" THEN ep.exc ELSE "none"
    /\ entry_result' = ep

\* Variant of lookup_failure with the table lookup inside the try block: the
\* unknown id surfaces as a failure dict.
lookup_failure_as_result == Returned(Failure(<<Msg("exception", 0)>>))

\* if space_id not in cls.SPACE_MODULES: raise ValueError(...)
lookup_failure == Raised("ValueError", 0)

\* num_variations = min(max(int(num_variations), 1), 15)
MIN_VARIATIONS == 1
MAX_VARIATIONS == 15
clamp_variations(n) ==
    LET lo == IF n > MIN_VARIATIONS THEN n ELSE MIN_VARIATIONS
    IN IF lo < MAX_VARIATIONS THEN lo ELSE MAX_VARIATIONS

\* ------------------------------------------- entry point, first segment
\* Variant of EntryThread that calls a blocking entry point where it stands,
\* on the loop of the caller.
EntryThread_inline(v, sid) ==
    IF v = "direct" THEN "worker" ELSE "loop"

\* The thread the entry point of sid runs on: a coroutine runs on the
\* caller's loop, a blocking function on a worker thread of the pool; a
\* blocking entry point called directly (it calls asyncio.run) runs on a thread
\* of its caller that has no running loop.
EntryThread(v, sid) ==
    IF v = "direct" THEN "worker"
    ELSE IF SPACE_MODULES[sid].is_coroutine THEN "loop" ELSE "worker"

\* loop.run_in_executor(None, lambda: func(inputs)): the worker thread runs the
\* lambda in its own context, c is not copied into it.
run_in_executor(c) == NoContext

\* The context the entry point of sid records its events in, called by v whose
\* context is c.
EntryContext(v, sid, c) ==
    IF v = "direct" \/ SPACE_MODULES[sid].is_coroutine THEN c ELSE run_in_executor(c)

\* ------------------------------------------------------------ API keys
\* config.get_gemini_api_key / get_openai_api_key in a context c:
\* _request_..._key.get() or the key of the environment
get_gemini_api_key(c) == IF c.gemini THEN "override" ELSE "env"
get_openai_api_key(c) == IF c.openai THEN "override" ELSE "env"

\* The key overrides in the context the entry point of sid runs in, called
\* by v in whose context keys are set: loop.run_in_executor does not copy
\* the context of its caller into the worker thread.
KeyContext(v, sid, keys) ==
    IF v = "direct" \/ SPACE_MODULES[sid].is_coroutine THEN keys ELSE NoKeys

\* chat_gemini: ...?key={config.GEMINI_API_KEY}
chat_gemini_key(c) == "env"

\* chat_openai: effective_key = api_key or config.get_openai_api_key()
chat_openai_key(c) == get_openai_api_key(c)

\* generate_image: ...?key={config.GEMINI_API_KEY}
generate_image_key(c) == "env"

\* The planning chat call of each workflow: chat_openai in sketch_to_product
\* and store_display_banner, chat_gemini in the others.
ChatProvider(sid) ==
    IF sid \in {"sketch-to-product", "store-display-banner"} THEN "openai" ELSE "gemini"

KeyUse(call, provider, key) == [call |-> call, provider |-> provider, key |-> key]

\* the planning call of the request, with the key it was made with
ChatCall(v, sid, keys) ==
    LET c == KeyContext(v, sid, keys) IN
    IF ChatProvider(sid) = "openai"
    THEN KeyUse("chat", "openai", chat_openai_key(c))
    ELSE KeyUse("chat", "gemini", chat_gemini_key(c))

\* a generate_image call of the request, with the key it was made with
ImageCall(v, sid, keys) ==
    KeyUse("image", "gemini", generate_image_key(KeyContext(v, sid, keys)))

\* Variant of entry_call that hands every entry point the inputs as one value.
entry_call_body_only(v, sid) == "body"

\* How the inputs are passed: func(inputs) for call style "body",
\* func(**inputs) otherwise; a direct caller passes the body.
entry_call(v, sid) ==
    IF v = "direct" THEN "body"
    ELSE IF SPACE_MODULES[sid].call_style = "body" THEN "body" ELSE "kwargs"

\* The context of a caller that has (sub) or has not attached a subscriber.
CallerContext(sub) == IF sub THEN set_request_queue ELSE NoContext

\* The workflow may take its next step: on the caller's loop the callbacks
\* scheduled before the workflow suspended run before it is resumed.
Resumable == thread = "loop" => run_queue = <<>>

\* The entry point of sid from its call to its first suspension point.
EntryStart(v, sid, kind, nv, sub) ==
    LET c == EntryContext(v, sid, CallerContext(sub)) IN
    /\ space' = sid
    /\ via' = v
    /\ subscriber' = sub
    /\ ctx' = c
    /\ thread' = EntryThread(v, sid)
    /\ UNCHANGED <<match_vars, registry, stages, tasks, completed, errors, failed,
                   generation_calls, foreign, reset_after, planned, score_vars, metadata, held, request_keys, keys_used>>
    /\ CASE sid \in {"product-swap", "steal-the-look"} ->
              IF kind = "bad_signature"
              THEN \* func(**inputs) cannot bind its parameters: TypeError
                   /\ Complete(v, Raised("TypeError", 0))
                   /\ Record(c, <<>>)
                   /\ calls' = Append(calls, entry_call(v, sid))
                   /\ UNCHANGED <<num_variations, invoked>>
              ELSE IF kind = "empty_required"
              THEN /\ Complete(v, Returned(MetadataOnly))
                   /\ invoked' = invoked + 1
                   /\ calls' = Append(calls, entry_call(v, sid))
                   /\ Record(c, <<>>)
                   /\ UNCHANGED num_variations
              ELSE /\ pc' = "planning"
                   /\ num_variations' = nv
                   /\ invoked' = invoked + 1
                   /\ calls' = Append(calls, entry_call(v, sid))
                   /\ Record(c, <<ProgressEvent("analyze-request", "completed")>>)
                   /\ UNCHANGED <<result, outcome, http_status, caught, entry_result>>
         [] sid = "sketch-to-product" ->
              IF kind = "empty_required"
              THEN /\ Complete(v, Returned(Failure(<<Msg("missing_input", 0)>>)))
                   /\ invoked' = invoked + 1
                   /\ calls' = Append(calls, entry_call(v, sid))
                   /\ Record(c, <<>>)
                   /\ UNCHANGED num_variations
              ELSE /\ pc' = "planning"
                   /\ num_variations' = nv
                   /\ invoked' = invoked + 1
                   /\ calls' = Append(calls, entry_call(v, sid))
                   /\ Record(c, <<ProgressEvent("analyze-request", "completed")>>)
                   /\ UNCHANGED <<result, outcome, http_status, caught, entry_result>>
         [] sid = "background-remover" ->
              IF kind = "empty_required"
              THEN \* raise ValueError("input_image is required")
                   /\ Complete(v, Raised("ValueError", 0))
                   /\ invoked' = invoked + 1
                   /\ calls' = Append(calls, entry_call(v, sid))
                   /\ Record(c, <<>>)
                   /\ UNCHANGED num_variations
              ELSE /\ pc' = "fetch"
                   /\ invoked' = invoked + 1
                   /\ calls' = Append(calls, entry_call(v, sid))
                   /\ Record(c, <<>>)
                   /\ UNCHANGED <<num_variations, result, outcome, http_status, caught, entry_result>>
         [] sid = "store-display-banner" ->
              /\ pc' = "planning"
              /\ num_variations' = nv
              /\ invoked' = invoked + 1
              /\ calls' = Append(calls, entry_call(v, sid))
              /\ Record(c, <<ProgressEvent("analyze-request", "completed")>>)
              /\ UNCHANGED <<result, outcome, http_status, caught, entry_result>>
         [] sid = MULTIPRODUCT ->
              IF kind = "empty_required"
              THEN \* raise ValueError inside the workflow's own try
                   /\ Complete(v, Returned(Failure(<<Msg("exception", 0)>>)))
                   /\ invoked' = invoked + 1
                   /\ calls' = Append(calls, entry_call(v, sid))
                   /\ Record(c, <<ProgressEvent("analyze-request", "started")>>)
                   /\ UNCHANGED num_variations
              ELSE /\ pc' = "planning"
                   /\ num_variations' = clamp_variations(nv)
                   /\ invoked' = invoked + 1
                   /\ calls' = Append(calls, entry_call(v, sid))
                   /\ Record(c, <<ProgressEvent("analyze-request", "started")>>)
                   /\ UNCHANGED <<result, outcome, http_status, caught, entry_result>>

\* SpaceExecutor.execute(space_id, inputs) up to the first suspension of the
\* entry point; load is the outcome of importlib.import_module.
SpaceExecutor_execute_body(v, sid, kind, nv, load, sub) ==
    IF sid \notin DOMAIN SPACE_MODULES
    THEN \* raise ValueError(f"Unknown space: {space_id}")
         /\ space' = sid
         /\ via' = v
         /\ subscriber' = sub
         /\ ctx' = CallerContext(sub)
         /\ thread' = "loop"
         /\ Respond(v, lookup_failure)
         /\ UNCHANGED <<match_vars, registry, num_variations, stages, tasks, completed, errors,
                        failed, invoked, generation_calls, caught, bus_vars,
                        foreign, reset_after,
                        calls, entry_result, planned, score_vars, metadata, held, request_keys, keys_used>>
    ELSE IF load = "ImportError"
    THEN /\ space' = sid
         /\ via' = v
         /\ subscriber' = sub
         /\ ctx' = CallerContext(sub)
         /\ thread' = "loop"
         /\ Complete(v, Raised("ImportError", 0))
         /\ UNCHANGED <<match_vars, registry, num_variations, stages, tasks, completed, errors,
                        failed, invoked, generation_calls, bus_vars,
                        foreign, reset_after,
                        calls, planned, score_vars, metadata, held, request_keys, keys_used>>
    ELSE EntryStart(v, sid, kind, nv, sub)

\* Which input kinds make sense for sid: only a kwargs entry point can fail
\* to bind its parameters.
KindsFor(sid) ==
    IF sid \in DOMAIN SPACE_MODULES /\ SPACE_MODULES[sid].call_style = "kwargs"
    THEN InputKinds
    ELSE InputKinds \ {"bad_signature"}

\* POST /spaces/{space_id}/execute; the route attaches no subscriber.
execute_space ==
    /\ pc = "idle"
    /\ \E sid \in SpaceIds, nv \in 0..MaxVariations, load \in {"ok", "ImportError"} :
       \E kind \in KindsFor(sid) :
          IF sid \notin registry
          THEN \* HTTPException(status_code=404)
               /\ space' = sid
               /\ via' = "http"
               /\ thread' = "loop"
               /\ http_status' = 404
               /\ pc' = "done"
               /\ UNCHANGED <<match_vars, registry, num_variations, stages, tasks, completed,
                              errors, failed, result, outcome, invoked,
                              generation_calls, caught, subscriber, ctx, bus_vars,
                              foreign, reset_after,
                              calls, entry_result, planned, score_vars, metadata, held, request_keys, keys_used>>
          ELSE SpaceExecutor_execute_body("http", sid, kind, nv, load, FALSE)

\* SpaceExecutor.execute called by any other caller of the class, which may
\* have attached a subscriber queue to its context before.
SpaceExecutor_execute ==
    /\ pc = "idle"
    /\ \E sid \in SpaceIds, nv \in 0..MaxVariations, load \in {"ok", "ImportError"} :
       \E kind \in KindsFor(sid), sub \in BOOLEAN :
          SpaceExecutor_execute_body("execute", sid, kind, nv, load, sub)

\* multiproduct_tryon_execute(body), called directly.
multiproduct_tryon_execute ==
    /\ pc = "idle"
    /\ \E nv \in 0..MaxVariations, kind \in {"valid", "empty_required"}, sub \in BOOLEAN :
          EntryStart("direct", MULTIPRODUCT, kind, nv, sub)

\* ------------------------------------------------------- collaborators
\* Replies of the planning chat call: the call raises, its text does not parse
\* as JSON, or it parses and carries n prompts.
PlanReplies ==
    {[kind |-> "raise", n |-> 0], [kind |-> "unparsable", n |-> 0]}
    \cup {[kind |-> "prompts", n |-> k] : k \in 0..MaxPrompts}

\* How one stage can end: generate_image returns {url} ("ok") or {error}
\* ("error"); the stage body raises before it reaches generate_image
\* ("raise").  A store-display-banner stage is generate_image itself, which
\* never raises.
GenOutcomes(sid) ==
    IF sid = "store-display-banner" THEN {"ok", "error"} ELSE {"ok", "error", "raise"}

\* What the stage task of workflow sid hands to gather for stage i.
\*   product_swap / steal_the_look: asset dict, or None when generate_image
\*     returned an error; sketch_to_product: (asset, None) or (None, error);
\*   store_display_banner / multiproduct_tryon: the dict of generate_image.
StageReturn(sid, i, g) ==
    [stage |-> i,
     kind |-> IF g = "ok" THEN "asset"
              ELSE IF g = "raise" THEN "exception"
              ELSE IF sid \in {"product-swap", "steal-the-look"} THEN "none"
              ELSE "error"]

\* Variant of gather that hands the results over in the order the stages
\* completed (as asyncio.as_completed would).
gather_completion_order(sid, stgs, tsks) ==
    [j \in 1..Len(tsks) |->
        IF j <= Len(completed)
        THEN StageReturn(sid, completed[j], stgs[completed[j]].gen)
        ELSE StageReturn(sid, tsks[j], stgs[tsks[j]].gen)]

\* asyncio.gather: one result per awaitable, in the order they were passed.
gather(sid, stgs, tsks) ==
    [j \in 1..Len(tsks) |-> StageReturn(sid, tsks[j], stgs[tsks[j]].gen)]

IsAsset(r) == r.kind = "asset"
IsFailure(r) == r.kind # "asset"
IsException(r) == r.kind = "exception"

\* URL of the artifact of stage i (uuid-named upload: one URL per stage).
UrlOf(i) == i

AssetsOf(results) ==
    LET ok == SelectSeq(results, IsAsset)
    IN [j \in 1..Len(ok) |-> Asset(UrlOf(ok[j].stage))]

FailedOf(results) ==
    LET f == SelectSeq(results, IsFailure)
    IN [j \in 1..Len(f) |-> f[j].stage]

\* errors = [str(r) for r in results if isinstance(r, Exception)]
ExceptionsOf(results) ==
    LET e == SelectSeq(results, IsException)
    IN [j \in 1..Len(e) |-> Msg("exception", e[j].stage)]

\* error_msg = errors[0] if errors else "All image generations failed"
first_error(errs) == IF errs # <<>> THEN <<errs[1]>> ELSE <<Msg("generic", 0)>>

\* ---------------------------------------------------------------- fan-in
\* Each fan-in gives the returned dict, the new progress and image events,
\* and the error list of the workflow.
FanIn(res, evs, imgs, errs) == [res |-> res, events |-> evs, images |-> imgs, errors |-> errs]

\* product_swap.py, after gather
product_swap_fan_in(results) ==
    LET output_assets == AssetsOf(results)
        successful_images == Len(output_assets)
        errs == ExceptionsOf(results)
    IN FanIn(IF successful_images = 0
             THEN Failure(first_error(errs))
             ELSE Result(TRUE, TRUE, output_assets, <<>>),
             <<ProgressEvent("generate-assets",
                             IF successful_images > 0 THEN "completed" ELSE "failed")>>,
             [j \in 1..successful_images |-> ImageEvent(output_assets[j].url, j)],
             errs)

\* steal_the_look.py, after gather
steal_the_look_fan_in(results) ==
    LET output_assets == AssetsOf(results)
    IN FanIn(Result(TRUE, TRUE, output_assets, <<>>),
             <<ProgressEvent("generate-assets", "completed")>>,
             [j \in 1..Len(output_assets) |-> ImageEvent(output_assets[j].url, j)],
             <<>>)

\* multiproduct_tryon.py, after gather
multiproduct_fan_in(results) ==
    LET generated_images == AssetsOf(results)
        errs == ExceptionsOf(results)
    IN FanIn(IF Len(generated_images) = 0
             THEN Failure(first_error(errs))
             ELSE Result(TRUE, TRUE, generated_images, <<>>),
             <<ProgressEvent("generate-assets", "completed")>>,
             <<>>,
             errs)

\* store_display_banner.py, after gather: the dicts of generate_image are
\* returned as they are, an {error} dict included.
store_display_banner_fan_in(results) ==
    LET output_assets ==
            [j \in 1..Len(results) |->
                IF results[j].kind = "asset" THEN Asset(UrlOf(results[j].stage)) ELSE ErrorDict]
        ok == SelectSeq(results, IsAsset)
    IN FanIn(Result(TRUE, TRUE, output_assets, <<>>),
             <<ProgressEvent("generate-assets", "completed")>>,
             [j \in 1..Len(ok) |-> ImageEvent(UrlOf(ok[j].stage), ok[j].stage)],
             <<>>)

\* Variant of sketch_response without the 'if images_generated == 0' return.
sketch_response_always_success(output_assets, errs) ==
    Result(TRUE, TRUE, output_assets, <<>>)

\* sketch_to_product.py: the response after stage 1 and the other variations
sketch_response(output_assets, errs) ==
    IF Len(output_assets) = 0
    THEN Failure(IF errs # <<>> THEN <<Msg("all_failed", 0)>> \o errs
                 ELSE <<Msg("no_images", 0)>>)
    ELSE Result(TRUE, TRUE, output_assets, <<>>)

\* sketch_to_product.py, the loop over the gathered results; stage 1 has
\* produced first_asset before.
sketch_fan_in(results, first_asset, errs0) ==
    LET more == AssetsOf(results)
        fl == SelectSeq(results, IsFailure)
        errs == errs0 \o [j \in 1..Len(fl) |->
                    Msg(IF fl[j].kind = "exception" THEN "exception" ELSE "gen_error",
                        fl[j].stage)]
        output_assets == <<first_asset>> \o more
    IN FanIn(sketch_response(output_assets, errs),
             <<ProgressEvent("generate-additional-visuals", "completed")>>,
             [j \in 1..Len(more) |-> ImageEvent(more[j].url, j + 1)],
             errs)

fan_in_of(sid, results, errs0) ==
    CASE sid = "product-swap" -> product_swap_fan_in(results)
      [] sid = "steal-the-look" -> steal_the_look_fan_in(results)
      [] sid = MULTIPRODUCT -> multiproduct_fan_in(results)
      [] sid = "store-display-banner" -> store_display_banner_fan_in(results)
      [] sid = "sketch-to-product" -> sketch_fan_in(results, Asset(UrlOf(1)), errs0)

\* ------------------------------------------------ planning call returns
Running(n, ref) == [i \in 1..n |-> Stage("running", "none", ref)]

\* What the planning step leaves the workflow with: it keeps n prompts of
\* the reply, and prompts[j] is the index of the one stage j is launched
\* with.
Planned(n, prompts) == [n |-> n, prompts |-> prompts]
OwnPrompts(n) == [j \in 1..n |-> j]

\* store_display_banner.py: generation_prompts[variation_num - 1] after the
\* padding loop has appended generation_prompts[0] up to num_variations.
poster_prompt(j, k) == IF j <= k THEN j ELSE 1

\* Variant of poster_stages with one stage per prompt of the reply.
poster_stages_per_prompt(k, nv) == k

\* for variation_num in range(1, num_variations + 1): tasks.append(...)
poster_stages(k, nv) == nv

generation_prompts(k, nv) == [j \in 1..poster_stages(k, nv) |-> poster_prompt(j, k)]

\* multiproduct_tryon.py: the canned prompt of _create_fallback_prompt
FALLBACK_PROMPT == 0

\* if not editorial_prompts: editorial_prompts = [_create_fallback_prompt(...)];
\* one stage per element of editorial_prompts
editorial_prompts(n) == IF n = 0 THEN <<FALLBACK_PROMPT>> ELSE OwnPrompts(n)

\* The workflow resumes with the reply of its planning chat call and runs to
\* its next suspension point: the launch of its stages.
plan_reply ==
    /\ pc = "planning"
    /\ Resumable
    /\ keys_used' = keys_used \cup {ChatCall(via, space, request_keys)}
    /\ \E reply \in PlanReplies :
       /\ UNCHANGED <<match_vars, registry, via, space, num_variations, completed, errors,
                      failed, invoked, generation_calls, subscriber, ctx, thread,
                      foreign, reset_after,
                      calls, score_vars, metadata, held, request_keys>>
       /\ CASE space \in {"product-swap", "steal-the-look"} ->
                 IF reply.kind = "raise"
                 THEN \* except Exception as e: raise e
                      /\ Complete(via, Raised("Exception", 0))
                      /\ UNCHANGED <<stages, tasks, planned>>
                      /\ Record(ctx, <<>>)
                 ELSE IF reply.kind = "unparsable" \/ reply.n = 0
                 THEN /\ Complete(via, Returned(MetadataOnly))
                      /\ UNCHANGED <<stages, tasks>>
                      /\ planned' = Planned(0, <<>>)
                      /\ Record(ctx, <<>>)
                 ELSE /\ stages' = Running(reply.n, 0)
                      /\ tasks' = [j \in 1..reply.n |-> j]
                      /\ planned' = Planned(reply.n, OwnPrompts(reply.n))
                      /\ Record(ctx, <<ProgressEvent(
                             IF space = "product-swap" THEN "plan-placement"
                             ELSE "plan-style-transfer", "completed")>>)
                      /\ pc' = "fanout"
                      /\ UNCHANGED <<result, outcome, http_status, caught, entry_result>>
            [] space = "sketch-to-product" ->
                 LET n == IF reply.n < num_variations THEN reply.n ELSE num_variations IN
                 IF reply.kind = "raise"
                 THEN /\ Complete(via, Returned(Failure(<<Msg("exception", 0)>>)))
                      /\ UNCHANGED <<stages, tasks, planned>>
                      /\ Record(ctx, <<>>)
                 ELSE IF reply.kind = "unparsable"
                 THEN /\ Complete(via, Returned(Failure(<<Msg("parse_error", 0)>>)))
                      /\ UNCHANGED <<stages, tasks>>
                      /\ planned' = Planned(0, <<>>)
                      /\ Record(ctx, <<>>)
                 ELSE IF n = 0
                 THEN /\ Complete(via, Returned(Failure(<<Msg("no_prompt", 0)>>)))
                      /\ UNCHANGED <<stages, tasks>>
                      /\ planned' = Planned(n, <<>>)
                      /\ Record(ctx, <<>>)
                 ELSE \* stage 1 is awaited alone
                      /\ stages' = [i \in 1..n |->
                             IF i = 1 THEN Stage("running", "none", 0)
                             ELSE Stage("waiting", "none", 0)]
                      /\ planned' = Planned(n, OwnPrompts(n))
                      /\ Record(ctx, <<ProgressEvent("plan-materials", "completed")>>)
                      /\ pc' = "stage1"
                      /\ UNCHANGED <<tasks, result, outcome, http_status, caught, entry_result>>
            [] space = "store-display-banner" ->
                 LET k == IF reply.kind = "unparsable" THEN 1 ELSE reply.n IN
                 IF reply.kind = "raise" \/ (k = 0 /\ num_variations > 0)
                 THEN \* the chat call raised, or ValueError("No prompts generated ...")
                      /\ Complete(via, Returned(Failure(<<Msg("exception", 0)>>)))
                      /\ UNCHANGED <<stages, tasks>>
                      /\ planned' = IF reply.kind = "raise" THEN planned
                                    ELSE Planned(k, <<>>)
                      /\ Record(ctx, <<>>)
                 ELSE /\ planned' = Planned(k, generation_prompts(k, num_variations))
                      /\ stages' = Running(Len(planned'.prompts), 0)
                      /\ tasks' = [j \in 1..Len(planned'.prompts) |-> j]
                      /\ Record(ctx, <<ProgressEvent("layout-display", "completed")>>)
                      /\ pc' = "fanout"
                      /\ UNCHANGED <<result, outcome, http_status, caught, entry_result>>
            [] space = MULTIPRODUCT ->
                 LET k == Len(editorial_prompts(reply.n)) IN
                 IF reply.kind = "raise"
                 THEN /\ Complete(via, Returned(Failure(<<Msg("exception", 0)>>)))
                      /\ UNCHANGED <<stages, tasks, planned>>
                      /\ Record(ctx, <<>>)
                 ELSE /\ stages' = Running(k, 0)
                      /\ tasks' = [j \in 1..k |-> j]
                      /\ planned' = Planned(reply.n, editorial_prompts(reply.n))
                      /\ Record(ctx, <<ProgressEvent("analyze-request", "completed"),
                                        ProgressEvent("design-blend", "completed")>>)
                      /\ pc' = "fanout"
                      /\ UNCHANGED <<result, outcome, http_status, caught, entry_result>>

\* ------------------------------------------------------ stage 1 settles
\* Variant of launch_dependents that does not look at the stage-1 URL.
launch_dependents_unconditional(n, first_url) == n > 1

\* if remaining_variations and first_generated_image_url: launch the others
launch_dependents(n, first_url) == n > 1 /\ first_url # 0

\* sketch_to_product: run_variation(stage1_variation, None) settles with g;
\* the workflow continues to the launch of the other variations or to its
\* response.
stage1_settle ==
    /\ pc = "stage1"
    /\ Resumable
    /\ \E g \in GenOutcomes(space) :
       LET n == Len(stages)
           first_url == IF g = "ok" THEN UrlOf(1) ELSE 0
           settled == [stages EXCEPT ![1] = Stage("settled", g, 0)]
       IN
       /\ UNCHANGED <<match_vars, registry, via, space, num_variations, completed, failed, invoked,
                      subscriber, ctx, thread, foreign, reset_after,
                      calls, planned, score_vars, metadata, held, request_keys>>
       /\ generation_calls' = IF g = "raise" THEN generation_calls ELSE generation_calls + 1
       /\ keys_used' = IF g = "raise" THEN keys_used
                       ELSE keys_used \cup {ImageCall(via, space, request_keys)}
       /\ IF g = "raise"
          THEN \* caught by the workflow's outer except
               /\ Complete(via, Returned(Failure(<<Msg("exception", 1)>>)))
               /\ stages' = settled
               /\ Record(ctx, <<>>)
               /\ UNCHANGED <<tasks, errors>>
          ELSE IF launch_dependents(n, first_url)
          THEN /\ stages' = [i \in 1..n |->
                      IF i = 1 THEN settled[1] ELSE Stage("running", "none", first_url)]
               /\ tasks' = [j \in 1..(n - 1) |-> j + 1]
               /\ Record(ctx, <<ImageEvent(first_url, 1),
                                 ProgressEvent("generate-hero-visual", "completed")>>)
               /\ pc' = "fanout"
               /\ UNCHANGED <<errors, result, outcome, http_status, caught, entry_result>>
          ELSE IF g = "ok"
          THEN \* no other variation: respond
               /\ stages' = settled
               /\ Record(ctx, <<ImageEvent(first_url, 1),
                                 ProgressEvent("generate-hero-visual", "completed"),
                                 ProgressEvent("generate-additional-visuals", "completed")>>)
               /\ Complete(via, Returned(sketch_response(<<Asset(first_url)>>, errors)))
               /\ UNCHANGED <<tasks, errors>>
          ELSE \* stage 1 returned an error: the other variations are skipped
               LET errs == errors \o <<Msg("gen_error", 1)>>
                           \o (IF n > 1 THEN <<Msg("stage1_missing", 0)>> ELSE <<>>)
               IN /\ stages' = settled
                  /\ errors' = errs
                  /\ Complete(via, Returned(sketch_response(<<>>, errs)))
                  /\ Record(ctx, <<>>)
                  /\ UNCHANGED tasks

\* ------------------------------------------------ concurrent stages settle
\* One of the concurrently running stages settles; any running stage may be
\* the next one.
\* Variant of settles_independently in which a stage goes on only after the
\* stage submitted before it has succeeded.
settles_after_predecessor(stgs, tsks, j) ==
    /\ stgs[tsks[j]].st = "running"
    /\ j > 1 => stgs[tsks[j - 1]].gen = "ok"

\* Every launched stage is a task of its own: it settles when its own
\* generate_image call has returned or timed out, whatever the others do.
settles_independently(stgs, tsks, j) == stgs[tsks[j]].st = "running"

stage_settle ==
    /\ pc = "fanout"
    /\ Resumable
    /\ \E j \in 1..Len(tasks), g \in GenOutcomes(space) :
       LET i == tasks[j] IN
       /\ settles_independently(stages, tasks, j)
       /\ stages' = [stages EXCEPT ![i] = Stage("settled", g, @.ref)]
       /\ completed' = Append(completed, i)
       /\ generation_calls' = IF g = "raise" THEN generation_calls ELSE generation_calls + 1
       /\ keys_used' = IF g = "raise" THEN keys_used
                       ELSE keys_used \cup {ImageCall(via, space, request_keys)}
    /\ UNCHANGED <<match_vars, registry, pc, via, space, num_variations, tasks, errors, failed,
                   result, outcome, http_status, invoked, caught, subscriber, ctx,
                   thread, bus_vars, foreign, reset_after,
                   calls, entry_result, planned, score_vars, metadata, held, request_keys>>

\* Variant of all_settled that resumes the workflow as soon as one stage has
\* settled (asyncio.wait with FIRST_COMPLETED).
first_settled(stgs, tsks) ==
    Len(tsks) = 0 \/ \E j \in 1..Len(tsks) : stgs[tsks[j]].st = "settled"

\* gather resumes the workflow once every launched stage has settled.
all_settled(stgs, tsks) == \A j \in 1..Len(tsks) : stgs[tsks[j]].st = "settled"

fan_in ==
    /\ pc = "fanout"
    /\ Resumable
    /\ all_settled(stages, tasks)
    /\ \E results \in {gather(space, stages, tasks)} :
       \E f \in {fan_in_of(space, results, errors)} :
          /\ Complete(via, Returned(f.res))
          /\ Record(ctx, f.images \o f.events)
          /\ errors' = f.errors
          /\ failed' = FailedOf(results)
    /\ UNCHANGED <<match_vars, registry, via, space, num_variations, stages, tasks, completed,
                   invoked, generation_calls, subscriber, ctx, thread, foreign,
                   reset_after,
                   calls, planned, score_vars, metadata, held, request_keys, keys_used>>

\* ----------------------------------------------------- background remover
\* _remove_background after the validation of its input: the download
\* raises, the image is too small, the removal API fails, or an image comes
\* back and is uploaded.
remove_background_settle ==
    /\ pc = "fetch"
    /\ Resumable
    /\ \E o \in {"fetch_raise", "too_small", "api_error", "ok"} :
       /\ CASE o = "fetch_raise" ->
                 /\ Complete(via, Raised("Exception", 0))
                 /\ Record(ctx, <<>>)
            [] o = "too_small" ->
                 /\ Complete(via, Raised("ValueError", 0))
                 /\ Record(ctx, <<ProgressEvent("analyze-request", "completed")>>)
            [] o = "api_error" ->
                 /\ Complete(via, Returned(Failure(<<Msg("exception", 0)>>)))
                 /\ Record(ctx, <<ProgressEvent("analyze-request", "completed")>>)
            [] o = "ok" ->
                 /\ Complete(via, Returned(Result(TRUE, TRUE, <<Asset(UrlOf(1))>>, <<>>)))
                 /\ Record(ctx, <<ProgressEvent("analyze-request", "completed"),
                                   ImageEvent(UrlOf(1), 0),
                                   ProgressEvent("generate-output", "completed")>>)
    /\ UNCHANGED <<match_vars, registry, via, space, num_variations, stages, tasks, completed,
                   errors, failed, invoked, generation_calls, subscriber, ctx, thread,
                   foreign, reset_after,
                   calls, planned, score_vars, metadata, held, request_keys, keys_used>>

\* ------------------------------------------------- subscriber and store
\* The owning loop runs the next callback call_soon_threadsafe scheduled:
\* q.put_nowait(event).
loop_run ==
    /\ run_queue # <<>>
    /\ queue' = Append(queue, Head(run_queue))
    /\ run_queue' = Tail(run_queue)
    /\ UNCHANGED <<match_vars, registry, pc, via, space, num_variations, stages, tasks, completed,
                   errors, failed, result, outcome, http_status, invoked,
                   generation_calls, events, images, caught, subscriber, ctx,
                   thread, recorded, foreign, cleared, reset_after,
                   calls, entry_result, planned, score_vars, metadata, held, request_keys, keys_used>>

\* Another request served by the same process records an event: _store is
\* the one module-level ProgressStore.  Its context holds its own queue or
\* none, never the queue of this request.
other_request_record ==
    /\ pc # "done"
    /\ foreign < MaxForeign
    /\ \E type \in {"progress", "image"} :
       LET ev == ForeignEvent(type, IF pc = "idle" THEN "earlier" ELSE "concurrent")
           b == IF type = "progress"
                THEN stream_progress(NoContext, Bus, ev)
                ELSE stream_image(NoContext, Bus, ev)
       IN /\ events' = b.events
          /\ images' = b.images
    /\ foreign' = foreign + 1
    /\ cleared' = FALSE
    /\ UNCHANGED <<match_vars, registry, pc, via, space, num_variations, stages, tasks, completed,
                   errors, failed, result, outcome, http_status, invoked,
                   generation_calls, caught, subscriber, ctx, thread, run_queue,
                   queue, recorded, reset_after,
                   calls, entry_result, planned, score_vars, metadata, held, request_keys, keys_used>>

\* Variant of clear_events that forgets the image list.
clear_events_progress_only(b) == [b EXCEPT !.events = <<>>]

\* clear_events: _store.events.clear(); _store.images.clear()
clear_events(b) == [b EXCEPT !.events = <<>>, !.images = <<>>]

\* A user of the streaming module calls clear_events() between requests:
\* before one starts or after it has completed.  Nothing in handler.py or
\* the workflows calls it.
caller_clear_events ==
    /\ pc \in {"idle", "done"}
    /\ ~cleared
    /\ LET b == clear_events(Bus) IN
       /\ events' = b.events
       /\ images' = b.images
    /\ cleared' = TRUE
    /\ reset_after' = (reset_after \/ pc = "done")
    /\ UNCHANGED <<match_vars, registry, pc, via, space, num_variations, stages, tasks, completed,
                   errors, failed, result, outcome, http_status, invoked,
                   generation_calls, caught, subscriber, ctx, thread, run_queue,
                   queue, recorded, foreign,
                   calls, entry_result, planned, score_vars, metadata, held, request_keys, keys_used>>

\* ------------------------------------------------------------- matcher
\* REGISTRY["spaces"] as a list: the registered ids in the order of the file.
RegistryOrder ==
    <<"product-swap", "steal-the-look", "sketch-to-product", "background-remover",
      "store-display-banner", MULTIPRODUCT>>

InRegistry(reg, sid) == sid \in reg

RegistryList(reg) == SelectSeq(RegistryOrder, LAMBDA sid : InRegistry(reg, sid))

\* The hits a prompt can score against one space.
HitKinds == [kw : 0..MaxKeywords, pat : 0..MaxPatterns]

\* Prompts that hit the keywords or patterns of at most two spaces.
Prompts ==
    {[sid \in SpaceIds |-> IF sid = s1 THEN h1 ELSE IF sid = s2 THEN h2 ELSE NoHit] :
        s1 \in {"product-swap"}, s2 \in {"background-remover", MULTIPRODUCT},
        h1 \in HitKinds, h2 \in HitKinds}

\* _calculate_score in tenths: 0.2 per keyword, at most 0.6, plus 0.4 for
\* the first pattern that matches (the loop over the patterns breaks there).
KEYWORD_POINTS == 2
KEYWORD_CAP == 6
PATTERN_POINTS == 4

\* Variant of _calculate_score whose pattern loop has no break.
_calculate_score_every_pattern(hit) ==
    LET k == KEYWORD_POINTS * hit.kw
        capped == IF k < KEYWORD_CAP THEN k ELSE KEYWORD_CAP
    IN capped + PATTERN_POINTS * hit.pat

_calculate_score(hit) ==
    LET k == KEYWORD_POINTS * hit.kw
        capped == IF k < KEYWORD_CAP THEN k ELSE KEYWORD_CAP
    IN capped + (IF hit.pat > 0 THEN PATTERN_POINTS ELSE 0)

\* One space as _calculate_score meets it with a given prompt: keywords[i]
\* says whether keyword i (lower-cased) occurs in the prompt, patterns[j]
\* what re.search does with pattern j: it matches, it does not, or the
\* pattern does not compile (re.error).
PatternKinds == {"match", "no_match", "invalid"}
SeqsUpTo(S, n) == UNION {[1..k -> S] : k \in 0..n}
KeywordSeqs == SeqsUpTo(BOOLEAN, MaxKeywords)
PatternSeqs == SeqsUpTo(PatternKinds, MaxPatterns)

Signal(kind, ix) == [kind |-> kind, ix |-> ix]

\* for keyword in keywords: if keyword.lower() in prompt:
\*     matched_keywords.append(keyword)
keyword_loop(keywords) ==
    SelectSeq([i \in 1..Len(keywords) |-> Signal("keyword", i)],
              LAMBDA sg : keywords[sg.ix])

\* Variant of pattern_loop without the break: every matching pattern is
\* appended.
pattern_loop_no_break(patterns) ==
    SelectSeq([j \in 1..Len(patterns) |-> Signal("pattern", j)],
              LAMBDA sg : patterns[sg.ix] = "match")

\* for pattern in patterns: try: if re.search(...): append, break
\*                          except re.error: continue
RECURSIVE pattern_loop_from(_, _)
pattern_loop_from(patterns, j) ==
    IF j > Len(patterns) THEN <<>>
    ELSE IF patterns[j] = "match" THEN <<Signal("pattern", j)>>
    ELSE pattern_loop_from(patterns, j + 1)

pattern_loop(patterns) == pattern_loop_from(patterns, 1)

\* _calculate_score(prompt, space): the pair (score, matched_keywords)
calculate_score_pair(keywords, patterns) ==
    LET kw == keyword_loop(keywords)
        pat == pattern_loop(patterns)
    IN [score |-> _calculate_score([kw |-> Len(kw), pat |-> Len(pat)]),
        matched_keywords |-> kw \o pat]

\* the loop of _rule_based_match over the registry: a later space replaces
\* the best one only with a strictly greater score
RECURSIVE best_match_of(_, _, _, _)
best_match_of(spaces, p, best_match, best_score) ==
    IF spaces = <<>> THEN [space |-> best_match, score |-> best_score]
    ELSE LET score == _calculate_score(p[Head(spaces)]) IN
         IF score > best_score
         THEN best_match_of(Tail(spaces), p, Head(spaces), score)
         ELSE best_match_of(Tail(spaces), p, best_match, best_score)

RULE_MATCH_THRESHOLD == 3

\* Variant of _rule_based_match that returns the best space whatever its
\* score.
_rule_based_match_any_score(reg, p) ==
    LET b == best_match_of(RegistryList(reg), p, "", 0) IN
    IF b.space # ""
    THEN MatchResult(TRUE, b.space, IF b.score < 10 THEN b.score ELSE 10)
    ELSE NoMatch

_rule_based_match(reg, p) ==
    LET b == best_match_of(RegistryList(reg), p, "", 0) IN
    IF b.space # "" /\ b.score >= RULE_MATCH_THRESHOLD
    THEN MatchResult(TRUE, b.space, IF b.score < 10 THEN b.score ELSE 10)
    ELSE NoMatch

\* SpaceMatcher.match_sync
match_sync(reg, p) == _rule_based_match(reg, p)

\* Confidence values a reply of the semantic collaborator may carry (a reply
\* without the key counts as 0); 12 is a reply that says 1.2.
ConfValues == {0, 5, 6, 9, 12}

\* Replies of the semantic collaborator: the POST times out, fails at the
\* transport, answers with a status other than 200, answers with a body that
\* is not the JSON object asked for, or answers with such an object.
LlmReplies ==
    {[kind |-> k, matched |-> FALSE, confidence |-> 0, space_id |-> ""] :
        k \in {"timeout", "transport_error", "bad_status", "malformed"}}
    \cup {[kind |-> "json", matched |-> m, confidence |-> c, space_id |-> sid] :
            m \in BOOLEAN, c \in ConfValues, sid \in SpaceIds}

LLM_ACCEPT_THRESHOLD == 6

\* Variant of llm_intent_body that takes the id of the reply without looking
\* it up in the registry.
llm_intent_body_unregistered(reg, reply) ==
    IF reply.kind \in {"timeout", "transport_error", "malformed"}
    THEN [kind |-> "raise", res |-> NoMatch]
    ELSE IF reply.kind = "bad_status"
    THEN [kind |-> "return", res |-> NoMatch]
    ELSE IF reply.matched /\ reply.confidence >= LLM_ACCEPT_THRESHOLD
    THEN [kind |-> "return", res |-> MatchResult(TRUE, reply.space_id, reply.confidence)]
    ELSE [kind |-> "return", res |-> MatchResult(FALSE, "", reply.confidence)]

\* The try block of _llm_intent_match once the POST has completed with reply.
llm_intent_body(reg, reply) ==
    IF reply.kind \in {"timeout", "transport_error", "malformed"}
    THEN \* httpx raised, or response.json() / json.loads / result.get raised
         [kind |-> "raise", res |-> NoMatch]
    ELSE IF reply.kind = "bad_status"
    THEN [kind |-> "return", res |-> NoMatch]
    ELSE IF reply.matched /\ reply.confidence >= LLM_ACCEPT_THRESHOLD
            /\ InRegistry(reg, reply.space_id)
    THEN [kind |-> "return", res |-> MatchResult(TRUE, reply.space_id, reply.confidence)]
    ELSE [kind |-> "return", res |-> MatchResult(FALSE, "", reply.confidence)]

\* Variant of llm_except without the except clause.
llm_except_propagate(r) == r

\* except Exception: return MatchResult(matched=False, confidence=0.0)
llm_except(r) == IF r.kind = "raise" THEN [kind |-> "return", res |-> NoMatch] ELSE r

\* _llm_intent_match after the POST has completed
_llm_intent_match(reg, reply) == llm_except(llm_intent_body(reg, reply))

FAST_PATH_THRESHOLD == 8

\* Variant of fast_path that leaves a score of exactly 0.8 to the later tiers.
fast_path_strict(rule) == rule.confidence > FAST_PATH_THRESHOLD

\* if rule_result.confidence >= 0.8: return rule_result
fast_path(rule) == rule.confidence >= FAST_PATH_THRESHOLD

\* Variant of match_fallback without step 3.
match_fallback_semantic_only(rule, llm) ==
    IF llm.matched THEN llm ELSE NoMatch

\* SpaceMatcher.match, steps 2 and 3 once the semantic tier has given llm
\* (NoMatch when it was not run).
match_fallback(rule, llm) ==
    IF llm.matched THEN llm
    ELSE IF rule.matched THEN rule
    ELSE NoMatch

\* Replies to the POST of _create_task_plan: it times out, fails at the
\* transport, answers with a status other than 200, with a body that is not
\* the JSON asked for (or whose steps are no PlanStep), or with n steps.
TaskPlanReplies ==
    {[kind |-> k, steps |-> 0] : k \in {"timeout", "transport_error", "bad_status", "malformed"}}
    \cup {[kind |-> "json", steps |-> n] : n \in 0..MaxSteps}

PLAN_STEPS_CONFIDENCE == 8

\* _create_task_plan once its POST has completed with reply
create_task_plan_reply(reply) ==
    IF reply.kind = "json"
    THEN TaskPlan(FALSE, "", IF reply.steps > 0 THEN PLAN_STEPS_CONFIDENCE ELSE 0, reply.steps)
    ELSE \* status other than 200, or except Exception
         TaskPlan(FALSE, "", 0, 0)

\* _create_task_plan up to its return for want of a key or to its POST
_create_task_plan(key) ==
    IF ~key
    THEN /\ task_plan' = TaskPlan(FALSE, "", 0, 0)
         /\ pc' = "done"
         /\ UNCHANGED plan_calls
    ELSE /\ pc' = "planning_task"
         /\ plan_calls' = plan_calls + 1
         /\ UNCHANGED task_plan

PLAN_SIMPLE_THRESHOLD == 7

\* Variant of plan_is_simple that takes every match as simple.
plan_is_simple_any_match(res) == res.matched

\* if match_result.matched and match_result.confidence >= 0.7
plan_is_simple(res) == res.matched /\ res.confidence >= PLAN_SIMPLE_THRESHOLD

\* plan_task once match has returned res
plan_task_body(res, key) ==
    IF plan_is_simple(res)
    THEN /\ task_plan' = TaskPlan(TRUE, res.space, res.confidence, 0)
         /\ pc' = "done"
         /\ UNCHANGED plan_calls
    ELSE _create_task_plan(key)

\* Variant of runs_semantic_tier that asks the collaborator only when the
\* rule tier found nothing.
runs_semantic_tier_unmatched_only(rule, use, has_key) ==
    use /\ has_key /\ ~rule.matched

\* Step 2 of match, reached when the fast path did not return: 'if use_llm:
\* llm_result = await cls._llm_intent_match(prompt)', whatever the rule tier
\* found; _llm_intent_match makes its POST when the key is set.
runs_semantic_tier(rule, use, has_key) == use /\ has_key

\* match returns res to its caller: the /match route responds, plan_task
\* goes on
MatchReturn(v, res, key) ==
    /\ match_result' = res
    /\ match_outcome' = "returned"
    /\ IF v = "plan"
       THEN plan_task_body(res, key)
       ELSE /\ pc' = (IF v = "match_and_execute" THEN "matched" ELSE "done")
            /\ UNCHANGED <<task_plan, plan_calls>>

\* SpaceMatcher.match(p, use) called by v, up to its return or to the POST
\* of _llm_intent_match; has_key is whether GEMINI_API_KEY is set.
match_call(v, p, use, has_key) ==
    LET rule == _rule_based_match(registry, p) IN
    /\ via' = v
    /\ use_llm' = use
    /\ api_key' = has_key
    /\ prompt' = p
    /\ scores' = [sid \in SpaceIds |->
                    IF InRegistry(registry, sid) THEN _calculate_score(p[sid]) ELSE 0]
    /\ rule_result' = rule
    /\ IF fast_path(rule)
       THEN /\ MatchReturn(v, rule, has_key)
            /\ UNCHANGED llm_calls
       ELSE IF runs_semantic_tier(rule, use, has_key)
       THEN /\ pc' = "matching"
            /\ llm_calls' = llm_calls + 1
            /\ UNCHANGED <<match_result, match_outcome, task_plan, plan_calls>>
       ELSE \* use_llm is false, or _llm_intent_match returned for want of a key
            /\ MatchReturn(v, match_fallback(rule, NoMatch), has_key)
            /\ UNCHANGED llm_calls
    /\ UNCHANGED <<registry, space, num_variations, stages, tasks, completed, errors,
                   failed, result, outcome, http_status, invoked, generation_calls,
                   caught, subscriber, ctx, thread, bus_vars, foreign, reset_after,
                   llm_reply,
                   calls, entry_result, planned, score_vars, metadata, held, request_keys, keys_used>>

\* POST /match: SpaceMatcher.match(prompt, use_llm)
match_prompt ==
    /\ pc = "idle"
    /\ \E p \in Prompts, use \in BOOLEAN, has_key \in BOOLEAN :
          match_call("match", p, use, has_key)

\* POST /plan: plan_task calls SpaceMatcher.match(prompt, use_llm=True)
plan_task ==
    /\ pc = "idle"
    /\ \E p \in Prompts, has_key \in BOOLEAN :
          match_call("plan", p, TRUE, has_key)

\* POST /match-and-execute: SpaceMatcher.match(body.prompt, use_llm)
match_and_execute ==
    /\ pc = "idle"
    /\ \E p \in Prompts, use \in BOOLEAN, has_key \in BOOLEAN :
          match_call("match_and_execute", p, use, has_key)

\* How load-and-run of the entry point of sid can end inside
\* SpaceExecutor.execute: the import fails, the entry point raises, or it
\* returns a failure dict, a dict with its artifacts or (product_swap and
\* steal_the_look) a dict without 'success'.
EntryOutcomes(sid) ==
    {Raised("ImportError", 0), Raised("Exception", 0),
     Returned(Failure(<<Msg("exception", 0)>>)),
     Returned(Result(TRUE, TRUE, <<Asset(UrlOf(1))>>, <<>>))}
    \cup (IF sid \in {"product-swap", "steal-the-look"}
          THEN {Returned(MetadataOnly)} ELSE {})

\* match_and_execute, the try block once execute has completed with ex:
\* result["metadata"] = {...}; return SpaceOutput(**result)
match_and_execute_try(ex) ==
    IF ex.kind = "raise" THEN ex
    ELSE IF SpaceOutputValid(ex.res) THEN ex
    ELSE Raised("ValidationError", 0)

\* Variant of match_and_execute_except that catches nothing.
match_and_execute_except_none(r) == r

\* except Exception as e: return SpaceOutput(success=False, error=str(e),
\*                                           outputAssets=[])
match_and_execute_except(r) ==
    IF r.kind = "raise" THEN Returned(Failure(<<Msg("exception", 0)>>)) ELSE r

\* match has returned to the match_and_execute route: it responds at once
\* when nothing matched, and otherwise awaits SpaceExecutor.execute for the
\* matched space and responds with what comes of it.
match_and_execute_body ==
    /\ pc = "matched"
    /\ IF ~match_result.matched \/ match_result.space = ""
       THEN /\ result' = Failure(<<Msg("no_match", 0)>>)
            /\ outcome' = "returned"
            /\ http_status' = 200
            /\ metadata' = "unmatched"
            /\ UNCHANGED <<space, invoked, calls, caught, entry_result>>
       ELSE \E ep \in (IF match_result.space \in DOMAIN SPACE_MODULES
                        THEN EntryOutcomes(match_result.space) ELSE {NoCall}) :
            LET sid == match_result.space
                ex == IF sid \in DOMAIN SPACE_MODULES
                      THEN execute_except(ep) ELSE lookup_failure
                tried == match_and_execute_try(ex)
                r == match_and_execute_except(tried)
                ran == sid \in DOMAIN SPACE_MODULES /\ ep.exc # "ImportError"
            IN /\ space' = sid
               /\ entry_result' = ep
               /\ caught' = IF ep.kind = "raise" THEN ep.exc ELSE "none"
               /\ invoked' = IF ran THEN invoked + 1 ELSE invoked
               /\ calls' = IF ran THEN Append(calls, entry_call("match_and_execute", sid))
                           ELSE calls
               /\ result' = r.res
               /\ outcome' = IF r.kind = "raise" THEN "raised" ELSE "returned"
               /\ http_status' = IF r.kind = "raise" THEN 500 ELSE 200
               /\ metadata' = IF tried.kind = "raise" THEN "none" ELSE "matched"
    /\ pc' = "done"
    /\ UNCHANGED <<match_vars, bus_vars, registry, via, num_variations, stages,
                   tasks, completed, errors, failed, generation_calls, subscriber,
                   ctx, thread, foreign, reset_after, planned, score_vars, held, request_keys, keys_used>>

\* The POST of _llm_intent_match completes; match runs to its end.
llm_reply_arrives ==
    /\ pc = "matching"
    /\ \E reply \in LlmReplies :
       LET r == _llm_intent_match(registry, reply) IN
       /\ llm_reply' = reply
       /\ IF r.kind = "raise"
          THEN /\ match_outcome' = "raised"
               /\ pc' = "done"
               /\ UNCHANGED <<match_result, task_plan, plan_calls>>
          ELSE MatchReturn(via, match_fallback(rule_result, r.res), api_key)
    /\ UNCHANGED <<registry, via, space, num_variations, stages, tasks, completed,
                   errors, failed, result, outcome, http_status, invoked,
                   generation_calls, caught, subscriber, ctx, thread, bus_vars,
                   foreign, reset_after, use_llm, rule_result, llm_calls,
                   prompt, scores, api_key,
                   calls, entry_result, planned, score_vars, metadata, held, request_keys, keys_used>>

\* The POST of _create_task_plan completes; plan_task returns the plan.
task_plan_reply ==
    /\ pc = "planning_task"
    /\ \E reply \in TaskPlanReplies :
          task_plan' = create_task_plan_reply(reply)
    /\ pc' = "done"
    /\ UNCHANGED <<registry, via, space, num_variations, stages, tasks, completed,
                   errors, failed, result, outcome, http_status, invoked,
                   generation_calls, caught, subscriber, ctx, thread, bus_vars,
                   foreign, reset_after, use_llm, rule_result, llm_reply, llm_calls,
                   match_result, match_outcome, prompt, scores, api_key, plan_calls,
                   calls, entry_result, planned, score_vars, metadata, held, request_keys, keys_used>>

\* _calculate_score is called with one space and a prompt.
calculate_score ==
    /\ score_ret = NoScore
    /\ \E keywords \in KeywordSeqs, patterns \in PatternSeqs :
          /\ score_args' = [keywords |-> keywords, patterns |-> patterns]
          /\ score_ret' = calculate_score_pair(keywords, patterns)
    /\ UNCHANGED <<match_vars, bus_vars, registry, pc, via, space, num_variations,
                   stages, tasks, completed, errors, failed, result, outcome,
                   http_status, invoked, generation_calls, caught, subscriber,
                   ctx, thread, foreign, reset_after, calls, entry_result, planned, metadata, held, request_keys, keys_used>>

\* The caller of a request sets key overrides in the context of the request
\* before it starts it: set_request_keys(gemini_key, openai_key) sets each
\* context variable whose argument is given.
set_request_keys ==
    /\ pc = "idle"
    /\ request_keys = NoKeys
    /\ \E gemini_key \in BOOLEAN, openai_key \in BOOLEAN :
          /\ gemini_key \/ openai_key
          /\ request_keys' = [gemini |-> gemini_key, openai |-> openai_key]
    /\ UNCHANGED <<match_vars, bus_vars, score_vars, registry, pc, via, space,
                   num_variations, stages, tasks, completed, errors, failed,
                   result, outcome, http_status, invoked, generation_calls,
                   caught, subscriber, ctx, thread, foreign, reset_after, calls,
                   entry_result, planned, metadata, held, keys_used>>

\* A caller drains the store: it calls get_progress_events() and
\* get_image_events() and keeps the two lists.
caller_drain ==
    /\ ~held.taken
    /\ held' = [taken |-> TRUE, mutated |-> FALSE,
                progress |-> list_copy(get_progress_events),
                images |-> list_copy(get_image_events),
                returned |-> [progress |-> get_progress_events,
                              images |-> get_image_events],
                mark |-> StoreMark]
    /\ UNCHANGED <<match_vars, bus_vars, score_vars, registry, pc, via, space,
                   num_variations, stages, tasks, completed, errors, failed,
                   result, outcome, http_status, invoked, generation_calls,
                   caught, subscriber, ctx, thread, foreign, reset_after, calls,
                   entry_result, planned, metadata, request_keys, keys_used>>

\* The caller changes one of the lists it holds.  A list that is the list of
\* the store changes there too.
caller_mutates ==
    /\ held.taken /\ ~held.mutated
    /\ \E which \in {"progress", "images"}, op \in ListOps :
       LET target == held[which]
           after == mutate(target.items, op)
       IN /\ held' = [held EXCEPT ![which].items = after, !.mutated = TRUE]
          /\ events' = IF which = "progress" /\ target.shared THEN after ELSE events
          /\ images' = IF which = "images" /\ target.shared THEN after ELSE images
    /\ UNCHANGED <<match_vars, score_vars, registry, pc, via, space,
                   num_variations, stages, tasks, completed, errors, failed,
                   result, outcome, http_status, invoked, generation_calls,
                   caught, subscriber, ctx, thread, run_queue, queue, recorded,
                   cleared, foreign, reset_after, calls, entry_result, planned,
                   metadata, request_keys, keys_used>>

\* ------------------------------------------------------- specification
Next ==
    \/ execute_space
    \/ SpaceExecutor_execute
    \/ multiproduct_tryon_execute
    \/ plan_reply
    \/ stage1_settle
    \/ stage_settle
    \/ fan_in
    \/ remove_background_settle
    \/ loop_run

\* One request, alone in the process, from its call to its response.
Spec == Init /\ [][Next]_vars

\* Spec with the scheduling the runtime gives: every collaborator call comes
\* back (a reply or its timeout) and the event loop resumes what is ready,
\* so a step that stays enabled is taken.
Fairness ==
    /\ WF_vars(plan_reply)
    /\ WF_vars(stage1_settle)
    /\ WF_vars(stage_settle)
    /\ WF_vars(fan_in)
    /\ WF_vars(remove_background_settle)
    /\ WF_vars(loop_run)

LiveSpec == Init /\ [][Next]_vars /\ Fairness

\* The requests of the HTTP route in a process that serves other requests
\* too and whose store may be reset between requests.
StoreNext ==
    \/ execute_space
    \/ plan_reply
    \/ stage1_settle
    \/ stage_settle
    \/ fan_in
    \/ remove_background_settle
    \/ other_request_record
    \/ caller_clear_events

StoreSpec == Init /\ [][StoreNext]_vars

\* The match and plan requests.
MatchNext ==
    \/ match_prompt
    \/ plan_task
    \/ match_and_execute
    \/ llm_reply_arrives
    \/ task_plan_reply
    \/ match_and_execute_body

MatchSpec == Init /\ [][MatchNext]_vars

\* The requests of the HTTP route whose caller may have set key overrides.
KeyNext ==
    \/ set_request_keys
    \/ execute_space
    \/ plan_reply
    \/ stage1_settle
    \/ stage_settle
    \/ fan_in
    \/ remove_background_settle

KeySpec == Init /\ [][KeyNext]_vars

\* A caller that drains the store and keeps what it got, while a
\* background-remover request, other requests and resets write the store.
DrainNext ==
    \/ execute_space
    \/ remove_background_settle
    \/ other_request_record
    \/ caller_clear_events
    \/ caller_drain
    \/ caller_mutates

DrainSpec == Init /\ [][DrainNext]_vars

\* _calculate_score alone, over every space and prompt of the bounds.
ScoreNext == calculate_score

ScoreSpec == Init /\ [][ScoreNext]_vars

TypeOK ==
    /\ pc \in {"idle", "planning", "stage1", "fanout", "fetch", "matching",
              "planning_task", "matched", "done"}
    /\ match_outcome \in {"pending", "returned", "raised"}
    /\ llm_calls \in 0..1
    /\ outcome \in {"pending", "returned", "raised"}
    /\ http_status \in {0, 200, 400, 404, 500}
    /\ metadata \in {"none", "unmatched", "matched"}
    /\ thread \in {"none", "loop", "worker"}
    /\ foreign \in 0..MaxForeign
    /\ subscriber \in BOOLEAN /\ cleared \in BOOLEAN /\ reset_after \in BOOLEAN

\* ================================================================ claims
\* execute was entered for the request and the request is over.
ExecuteDone == pc = "done" /\ via \in {"http", "execute"} /\ http_status # 404

Registered == space \in DOMAIN SPACE_MODULES

IsArtifact(a) == ~a.error /\ a.url # 0

TaskOk(i) == stages[i].gen = "ok"

\* indices (into tasks) of the concurrent stages that raised or returned an error
FailedTasks == {j \in 1..Len(tasks) : stages[tasks[j]].gen \in {"error", "raise"}}

\* the fan-out of the request ran and the request is over
FanOutDone == pc = "done" /\ space \in FanOutSpaces /\ Len(tasks) >= 1

\* artifacts of the successful stages in submission order (stage 1 first in
\* sketch-to-product)
ExpectedArtifacts ==
    LET ok == SelectSeq(tasks, TaskOk)
        dep == [j \in 1..Len(ok) |-> Asset(UrlOf(ok[j]))]
    IN IF space = "sketch-to-product" THEN <<Asset(UrlOf(1))>> \o dep ELSE dep

\* C1: execute called with an id that is not in SPACE_MODULES ends with the
\* ValueError raised to the caller: no entry point was invoked and no result
\* dict was returned (and the route answers 400).
C1_UnknownIdRaises ==
    (ExecuteDone /\ ~Registered) =>
        /\ outcome = "raised"
        /\ invoked = 0
        /\ result = NoResult
        /\ caught = "none"
        /\ (via = "http" => http_status = 400)

C1_Witness ==
    /\ pc = "done" /\ via = "execute" /\ space = "no-such-space"
    /\ outcome = "raised" /\ invoked = 0

\* C2 as stated: for a registered id execute never propagates an exception;
\* whatever is raised while the entry point is loaded and run comes back as
\* {success: false, error, outputAssets: []}.
C2_Original ==
    (ExecuteDone /\ Registered) =>
        /\ outcome = "returned"
        /\ (caught # "none" =>
              /\ result.has_success /\ ~result.success
              /\ result.outputAssets = <<>> /\ result.error # <<>>)

\* C2 amended: for a registered id, an exception other than ImportError
\* raised while the entry point is loaded and run comes back as the failure
\* dict; an ImportError leaves execute as a ValueError, and nothing else does.
C2_CaughtExceptImportError ==
    (ExecuteDone /\ Registered) =>
        /\ (caught \notin {"none", "ImportError"} =>
              /\ outcome = "returned"
              /\ result.has_success /\ ~result.success
              /\ result.outputAssets = <<>> /\ result.error # <<>>)
        /\ (caught = "ImportError" => outcome = "raised" /\ result = NoResult)
        /\ (outcome = "raised" => caught = "ImportError")

C2_Witness ==
    /\ ExecuteDone /\ Registered
    /\ caught = "Exception" /\ outcome = "returned"
    /\ result.has_success /\ ~result.success /\ result.error # <<>>

\* C3: every dict execute returns for a registered workflow carries a boolean
\* 'success' and, when it is a failure, an error; the route answers 200.
C3_WellFormedResult ==
    (ExecuteDone /\ Registered /\ outcome = "returned") =>
        /\ result.has_success
        /\ (~result.success => result.error # <<>>)
        /\ (via = "http" => http_status = 200)

\* C4: in a fan-out workflow whose stages ran, success is true if and only if
\* at least one stage produced an artifact.
C4_SuccessIffArtifact ==
    (pc = "done" /\ space \in FanOutSpaces /\ Len(stages) >= 1 /\ outcome = "returned") =>
        ((result.has_success /\ result.success)
            <=> (\E i \in 1..Len(stages) : stages[i].gen = "ok"))

C6_Stage1FailureStops ==
    (pc = "done" /\ space = "sketch-to-product" /\ Len(stages) >= 2
        /\ stages[1].st = "settled" /\ stages[1].gen # "ok") =>
        /\ \A i \in 2..Len(stages) : stages[i].st = "waiting"
        /\ generation_calls <= 1
        /\ outcome = "returned" /\ result.has_success /\ ~result.success
        /\ \E k \in 1..Len(result.error) : result.error[k] = Msg("stage1_missing", 0)

\* C7: in sketch-to-product a dependent stage is started only after stage 1
\* has settled with its artifact, and it gets the stage-1 URL as reference.
C7_Stage1Precedes ==
    space = "sketch-to-product" =>
        \A i \in 2..Len(stages) :
            stages[i].st # "waiting" =>
                /\ stages[1].st = "settled" /\ stages[1].gen = "ok"
                /\ stages[i].ref = UrlOf(1)

C7_Witness ==
    /\ space = "sketch-to-product" /\ pc = "fanout"
    /\ Len(stages) >= 3
    /\ stages[2].st = "running" /\ stages[3].st = "settled"
    /\ stages[2].ref = UrlOf(1)

\* C8: whatever the completion order, the artifacts in outputAssets are those
\* of the successful stages in submission order; except in
\* store-display-banner they are all outputAssets holds.
C8_SubmissionOrder ==
    (FanOutDone /\ outcome = "returned" /\ result.has_success /\ result.success) =>
        /\ SelectSeq(result.outputAssets, IsArtifact) = ExpectedArtifacts
        /\ (space # "store-display-banner" => result.outputAssets = ExpectedArtifacts)

C8_Witness ==
    /\ FanOutDone /\ space = "product-swap"
    /\ completed = <<3, 2, 1>>
    /\ stages[1].gen = "ok" /\ stages[2].gen = "error" /\ stages[3].gen = "ok"
    /\ result.success
    /\ result.outputAssets = <<Asset(UrlOf(1)), Asset(UrlOf(3))>>

\* C9: every element of outputAssets of a returned result is a produced
\* artifact with a URL; the outcome of a failed stage is never among them.
C9_OnlyArtifactsInOutput ==
    (pc = "done" /\ outcome = "returned") =>
        \A k \in 1..Len(result.outputAssets) : IsArtifact(result.outputAssets[k])

\* C10: when the fan-out ran and no stage produced an artifact, the error of
\* the failure result is the message of the first failed stage in submission
\* order.
C10_FirstStageErrorSurfaced ==
    (FanOutDone /\ outcome = "returned" /\ result.has_success /\ ~result.success
        /\ \A i \in 1..Len(stages) : stages[i].gen # "ok") =>
        /\ result.error # <<>>
        /\ result.error[1].tag \in {"gen_error", "exception"}
        /\ result.error[1].stage = tasks[1]

\* ------------------------------------------------ event bus and matcher
IsProgress(e) == e.type = "progress"
IsImage(e) == e.type = "image"
IsEarlier(e) == e.req = "earlier"

\* the progress / image events this request recorded, in call order
OwnProgress == SelectSeq(recorded, IsProgress)
OwnImages == SelectSeq(recorded, IsImage)

\* execute handed a blocking entry point to the worker pool
DispatchedToWorker ==
    /\ via \in {"http", "execute"} /\ Registered
    /\ ~SPACE_MODULES[space].is_coroutine
    /\ invoked > 0

\* C11: when execute dispatches a blocking entry point to the worker pool, the
\* context of the caller is the context of the worker task, and every event
\* the workflow records there is mirrored to the queue the caller attached
\* (delivered or scheduled on the owning loop).
C11_ContextPropagated ==
    (DispatchedToWorker /\ subscriber) =>
        /\ thread = "worker"
        /\ ctx = CallerContext(subscriber)
        /\ queue \o run_queue = recorded

\* C12: the handling of an execute request resets the store before the
\* workflow records its first event: once the workflow has started, the lists
\* a drain returns hold no event recorded by an earlier request.
C12_ResetAtRequestStart ==
    (via = "http" /\ invoked > 0) =>
        /\ SelectSeq(get_progress_events, IsEarlier) = <<>>
        /\ SelectSeq(get_image_events, IsEarlier) = <<>>

\* C13: for a request that started on an empty store and runs while another
\* request runs, the lists drained at its end hold exactly the events it
\* recorded itself.
C13_NoSharedEventState ==
    (pc = "done" /\ via = "http" /\ invoked > 0 /\ ~reset_after
        /\ SelectSeq(events \o images, IsEarlier) = <<>>) =>
        /\ get_progress_events = OwnProgress
        /\ get_image_events = OwnImages

\* C14: the drained lists hold the recorded events in call order, and with a
\* subscriber attached to the recording context every recorded event goes to
\* the subscriber queue exactly once and in call order, progress and image
\* events interleaved as recorded: what is delivered plus what is scheduled
\* is the recorded sequence, and once the loop has run, the queue is it.
C14_CallOrderMirrored ==
    /\ get_progress_events = OwnProgress
    /\ get_image_events = OwnImages
    /\ (ctx.queue => queue \o run_queue = recorded)
    /\ (ctx.queue /\ run_queue = <<>> => queue = recorded)

C14_Witness ==
    /\ pc = "done" /\ space = "sketch-to-product" /\ subscriber /\ ctx.queue
    /\ run_queue = <<>> /\ queue = recorded
    /\ Len(OwnImages) >= 2 /\ Len(OwnProgress) >= 4
    /\ \E k \in 1..(Len(queue) - 1) : IsImage(queue[k]) /\ IsProgress(queue[k + 1])

\* C15: with queue and loop attached, the subscriber queue changes only in a
\* step of the owning loop that runs a scheduled put; no step that records an
\* event, on whatever thread, writes the queue.
C15_QueueWrittenByLoopOnly ==
    [][queue' # queue =>
          /\ run_queue # <<>>
          /\ queue' = Append(queue, Head(run_queue))
          /\ run_queue' = Tail(run_queue)
          /\ recorded' = recorded]_vars

C15_Witness ==
    /\ thread = "worker" /\ ctx.queue /\ ctx.loop
    /\ Len(recorded) >= 3
    /\ Len(run_queue) >= 2
    /\ Len(queue) >= 1

\* C16: without a subscriber in the recording context nothing is mirrored
\* (no put is made or scheduled) and every recorded event is in the progress
\* or the image list a drain returns.
C16_CollectMode ==
    ~ctx.queue =>
        /\ queue = <<>> /\ run_queue = <<>>
        /\ SelectSeq(get_progress_events, LAMBDA e : e.req = "this") = OwnProgress
        /\ SelectSeq(get_image_events, LAMBDA e : e.req = "this") = OwnImages
        /\ Len(get_progress_events) + Len(get_image_events) >= Len(recorded)

C16_Witness ==
    /\ pc = "done" /\ ~subscriber /\ ~ctx.queue
    /\ Len(get_progress_events) >= 4 /\ Len(get_image_events) >= 2
    /\ queue = <<>> /\ run_queue = <<>>

\* C17: after clear_events and until the next record call both drains return
\* the empty list, whatever had been recorded before.
C17_ClearedIsEmpty ==
    cleared => get_progress_events = <<>> /\ get_image_events = <<>>

C17_Witness ==
    /\ cleared /\ reset_after /\ pc = "done"
    /\ Len(OwnProgress) >= 3 /\ Len(OwnImages) >= 2
    /\ foreign = 1
    /\ get_progress_events = <<>> /\ get_image_events = <<>>

\* a match request has gone through the rule tier
RuleTierDone == via = "match" /\ pc # "idle"
MatchDone == via = "match" /\ pc = "done"

\* C18: a rule score of 0.8 or more is returned as the match, with that
\* score, and the semantic collaborator is never called, whatever use_llm is.
C18_FastPath ==
    (RuleTierDone /\ rule_result.confidence >= 8) =>
        /\ pc = "done"
        /\ match_outcome = "returned"
        /\ match_result = rule_result
        /\ match_result.matched
        /\ llm_calls = 0

C18_Witness ==
    /\ MatchDone /\ use_llm
    /\ rule_result.confidence = 8 /\ rule_result.space = "product-swap"
    /\ match_result = rule_result /\ llm_calls = 0

\* C19: when the semantic collaborator times out, fails at the transport,
\* answers with a non-success status or with a malformed reply, match does
\* not raise and returns the rule result if its score is 0.3 or more, and
\* unmatched otherwise.
C19_CollaboratorFailureFallsBack ==
    (MatchDone /\ llm_reply.kind \in {"timeout", "transport_error", "bad_status", "malformed"}) =>
        /\ match_outcome = "returned"
        /\ llm_calls = 1
        /\ match_result = (IF rule_result.matched /\ rule_result.confidence >= 3
                           THEN rule_result ELSE NoMatch)

C19_Witness ==
    /\ MatchDone /\ llm_reply.kind = "timeout"
    /\ rule_result.matched /\ rule_result.confidence = 6
    /\ match_outcome = "returned" /\ match_result = rule_result

\* C20: the answer of the semantic tier is the result of match exactly when
\* the reply says matched, its confidence is 0.6 or more and its space id is
\* in the registry; in every other case the result is that of the rule
\* fallback.
C20_SemanticAcceptance ==
    (MatchDone /\ llm_reply.kind = "json") =>
        LET accepted == /\ llm_reply.matched
                        /\ llm_reply.confidence >= 6
                        /\ llm_reply.space_id \in registry
        IN /\ match_outcome = "returned"
           /\ (accepted =>
                 match_result = MatchResult(TRUE, llm_reply.space_id, llm_reply.confidence))
           /\ (~accepted =>
                 match_result = (IF rule_result.matched THEN rule_result ELSE NoMatch))

C20_Witness ==
    /\ MatchDone /\ llm_reply.kind = "json"
    /\ llm_reply.matched /\ llm_reply.confidence = 9
    /\ llm_reply.space_id = MULTIPRODUCT /\ MULTIPRODUCT \notin registry
    /\ rule_result.matched /\ match_result = rule_result

\* ------------------------------------------------- rule tier and planning
\* the semantic tier accepted the reply of its collaborator
SemanticMatched ==
    /\ llm_reply.kind = "json" /\ llm_reply.matched
    /\ llm_reply.confidence >= 6 /\ llm_reply.space_id \in registry

\* the greatest rule score of a registered space for the prompt, 0 if none
BestScore ==
    IF registry = {} THEN 0
    ELSE CHOOSE b \in {scores[sid] : sid \in registry} :
            \A sid \in registry : scores[sid] <= b

\* C21: when the semantic tier gave no match or was not run, match returns
\* the best rule match, with its score as confidence, if and only if that
\* score is 0.3 or more; otherwise it returns unmatched, confidence 0.0 and
\* no workflow.
C21_RuleFallback ==
    (MatchDone /\ ~SemanticMatched) =>
        /\ match_outcome = "returned"
        /\ (match_result.matched <=> BestScore >= 3)
        /\ (BestScore >= 3 =>
              /\ match_result.space \in registry
              /\ scores[match_result.space] = BestScore
              /\ match_result.confidence = BestScore)
        /\ (BestScore < 3 => match_result = NoMatch)

C21_Witness ==
    /\ MatchDone /\ use_llm
    /\ llm_reply.kind = "json" /\ ~llm_reply.matched
    /\ BestScore = 4 /\ match_result = MatchResult(TRUE, "product-swap", 4)

\* C22: the confidence of the MatchResult that match returns lies in [0, 1],
\* whichever tier produced it and whatever confidence the reply of the
\* semantic collaborator carries.
C22_ConfidenceInUnitInterval ==
    (MatchDone /\ match_outcome = "returned") =>
        (0 <= match_result.confidence /\ match_result.confidence <= 10)

\* C23: for every prompt and every registered workflow the rule score lies
\* in [0, 1.0], however many keywords and patterns of the workflow hit.
C23_ScoreInUnitInterval ==
    RuleTierDone =>
        \A sid \in registry : 0 <= scores[sid] /\ scores[sid] <= 10

C23_Witness ==
    /\ RuleTierDone /\ "product-swap" \in registry
    /\ prompt["product-swap"].kw > 3 /\ prompt["product-swap"].pat > 1
    /\ scores["product-swap"] = 10

\* C24: with use_llm false the semantic collaborator is never called and
\* match returns what match_sync returns for the same prompt and registry.
C24_RuleOnlyEqualsMatchSync ==
    (RuleTierDone /\ ~use_llm) =>
        /\ pc = "done"
        /\ llm_calls = 0
        /\ match_outcome = "returned"
        /\ match_result = match_sync(registry, prompt)

C24_Witness ==
    /\ MatchDone /\ ~use_llm /\ api_key
    /\ llm_calls = 0
    /\ match_result = MatchResult(TRUE, "product-swap", 4)
    /\ match_result = match_sync(registry, prompt)

\* plan_task has called match and match has returned
PlanMatched == via = "plan" /\ match_outcome = "returned"
PlanDone == via = "plan" /\ pc = "done"

CountedSpaces == {"sketch-to-product", "store-display-banner", MULTIPRODUCT}

\* C26: in every workflow that takes num_variations, the number it fans out
\* over has been clamped into 1..15.
C26_VariationsClamped ==
    (space \in CountedSpaces /\ pc \in {"stage1", "fanout"}) =>
        /\ MIN_VARIATIONS <= num_variations /\ num_variations <= MAX_VARIATIONS
        /\ Len(stages) <= MAX_VARIATIONS

\* progress events this request recorded, in call order
RecordedProgress == SelectSeq(recorded, IsProgress)

\* C27: a two-stage workflow records one progress event before stage 1
\* starts, one after stage 1 has settled, with success or failure, and one
\* after the fan-in of the dependent stages; none in between.
C27_StageBoundaryEvents ==
    (space = "sketch-to-product" /\ stages # <<>>) =>
        /\ Len(RecordedProgress) >= 2
        /\ RecordedProgress[2] = ProgressEvent("plan-materials", "completed")
        /\ stages[1].st = "settled" => Len(RecordedProgress) >= 3
        /\ pc = "fanout" => Len(RecordedProgress) = 3
        /\ (pc = "done" /\ tasks # <<>>) =>
              /\ Len(RecordedProgress) = 4
              /\ RecordedProgress[4] =
                    ProgressEvent("generate-additional-visuals", "completed")

\* the request is under way
InFlight == pc \in {"planning", "stage1", "fanout", "fetch"}

\* C28: every request that is under way comes to its end; in particular a
\* fan-out with slow or failing stages reaches its fan-in.
C28_EveryRequestReturns == InFlight ~> (pc = "done" /\ outcome # "pending")

C28_Witness ==
    /\ pc = "done" /\ space = "sketch-to-product"
    /\ Len(tasks) = 2 /\ failed # <<>>
    /\ outcome = "returned" /\ result.success

\* C29: for every id of the dispatch table whose module loads, execute
\* calls the entry point exactly once, with the inputs expanded into named
\* arguments for call style "kwargs" and as one value for "body", and what
\* the entry point returns is what execute returns.
C29_OneCallInTableStyle ==
    (via \in {"http", "execute"} /\ pc # "idle" /\ http_status # 404
        /\ space \in DOMAIN SPACE_MODULES /\ caught # "ImportError") =>
        /\ calls = <<SPACE_MODULES[space].call_style>>
        /\ invoked <= 1
        /\ entry_result.kind = "return" =>
              (outcome = "returned" /\ result = entry_result.res)

C29_Witness ==
    /\ ExecuteDone /\ space = "product-swap"
    /\ calls = <<"kwargs">> /\ invoked = 1
    /\ entry_result.kind = "return" /\ result.success

\* C30: execute runs a blocking entry point on a thread of the worker pool
\* and a coroutine entry point on the loop of its caller; either way the
\* caller gets the result of the entry point from execute.
C30_BlockingOnWorker ==
    (via \in {"http", "execute"} /\ calls # <<>>) =>
        /\ thread = (IF SPACE_MODULES[space].is_coroutine THEN "loop" ELSE "worker")
        /\ (pc = "done" /\ entry_result.kind = "return") =>
              (outcome = "returned" /\ result = entry_result.res)

C30_Witness ==
    /\ ExecuteDone /\ space = "store-display-banner"
    /\ thread = "worker" /\ invoked = 1
    /\ outcome = "returned" /\ result.success

\* C35: multiproduct-tryon never launches more stages than its clamped
\* num_variations, whatever the number of prompts the planning reply
\* carries; with no prompt it launches exactly one stage, with the canned
\* fallback prompt.
C35_StagesWithinVariations ==
    (space = MULTIPRODUCT /\ pc = "fanout") =>
        /\ num_variations <= MAX_VARIATIONS
        /\ Len(stages) <= num_variations
        /\ planned.n = 0 =>
              (Len(stages) = 1 /\ planned.prompts = <<FALLBACK_PROMPT>>)

\* C36: store-display-banner launches exactly num_variations stages: stage
\* j runs with prompt j of the reply, or with the first prompt when the
\* reply has fewer than j; prompts beyond num_variations are not used.  A
\* reply without any prompt, for num_variations >= 1, ends the request with
\* a structured failure and no stage launched.
C36_ExactlyNumVariations ==
    (space = "store-display-banner" /\ planned.n >= 0) =>
        /\ (planned.n >= 1 \/ num_variations = 0) =>
              /\ Len(stages) = num_variations
              /\ Len(tasks) = num_variations
              /\ generation_calls <= num_variations
              /\ \A j \in 1..Len(stages) :
                    /\ j <= planned.n => planned.prompts[j] = j
                    /\ j > planned.n => planned.prompts[j] = 1
        /\ (planned.n = 0 /\ num_variations >= 1) =>
              /\ pc = "done" /\ stages = <<>> /\ generation_calls = 0
              /\ outcome = "returned"
              /\ result.has_success /\ ~result.success /\ result.error # <<>>

C36_Witness ==
    /\ space = "store-display-banner" /\ pc = "done"
    /\ num_variations = 3 /\ planned.n = 2
    /\ planned.prompts = <<1, 2, 1>>
    /\ generation_calls = 3 /\ result.success

\* a sketch-to-product request whose workflow has returned its response
SketchDone ==
    /\ space = "sketch-to-product" /\ pc = "done"
    /\ invoked = 1 /\ outcome = "returned"

\* stage 1 of the request has produced its artifact
Stage1Artifact == stages # <<>> /\ stages[1].gen = "ok"

\* C37: a sketch-to-product result has success = true exactly when stage 1
\* produced its artifact; that artifact is then the first element of
\* outputAssets, and a result without it holds no artifact of a dependent
\* stage.
C37_SuccessIffStage1 ==
    SketchDone =>
        /\ result.has_success
        /\ result.success <=> Stage1Artifact
        /\ Stage1Artifact => /\ result.outputAssets # <<>>
                             /\ result.outputAssets[1] = Asset(UrlOf(1))
        /\ ~Stage1Artifact => /\ result.outputAssets = <<>>
                              /\ \A i \in 1..Len(stages) : stages[i].gen # "ok"

C37_Witness ==
    /\ SketchDone /\ Len(stages) = 3
    /\ stages[1].gen = "ok" /\ stages[2].gen = "error" /\ stages[3].gen = "ok"
    /\ result.success
    /\ result.outputAssets = <<Asset(UrlOf(1)), Asset(UrlOf(3))>>

\* id of the progress step that ends the generation of a workflow
FinalStep(sid) ==
    IF sid = "sketch-to-product" THEN "generate-additional-visuals"
    ELSE "generate-assets"

\* the request has recorded 'completed' for its final generation step
FinalStepCompleted ==
    \E i \in 1..Len(recorded) :
        /\ IsProgress(recorded[i])
        /\ recorded[i].id = FinalStep(space)
        /\ recorded[i].status = "completed"

\* C38: in every workflow the 'completed' progress event of the final
\* generation step is recorded only for a request whose result has
\* success = true.
C38_CompletedOnlyOnSuccess ==
    (pc = "done" /\ FinalStepCompleted) =>
        (outcome = "returned" /\ result.has_success /\ result.success)

\* C33: match goes through its tiers in the order rule, semantic, rule
\* fallback, unmatched.  A rule score of 0.8 or more is returned at once.
\* Below 0.8 with use_llm true the semantic tier is asked first, and what it
\* accepts is the result even when the rule tier matched another workflow
\* with a score in [0.3, 0.8); the rule result is returned only once the
\* semantic tier has reported no match, and unmatched only when neither
\* tier matched.
C33_CascadeOrder ==
    (MatchDone /\ match_outcome = "returned") =>
        /\ rule_result.confidence >= 8 =>
              (llm_calls = 0 /\ match_result = rule_result)
        /\ (rule_result.confidence < 8 /\ use_llm /\ api_key) =>
              /\ llm_calls = 1
              /\ llm_reply.kind # "none"
              /\ SemanticMatched =>
                    /\ match_result.matched
                    /\ match_result.space = llm_reply.space_id
                    /\ match_result.confidence = llm_reply.confidence
        /\ (rule_result.confidence < 8 /\ ~SemanticMatched) =>
              /\ rule_result.matched => match_result = rule_result
              /\ ~rule_result.matched => match_result = NoMatch

C33_Witness ==
    /\ MatchDone /\ use_llm /\ api_key
    /\ rule_result = MatchResult(TRUE, "product-swap", 4)
    /\ SemanticMatched /\ llm_reply.space_id = "background-remover"
    /\ match_result = MatchResult(TRUE, "background-remover", llm_reply.confidence)

\* number of keywords of the call that occur in the prompt
KeywordsHit == Cardinality({i \in 1..Len(score_args.keywords) : score_args.keywords[i]})

\* indices of the patterns of the call that match the prompt
PatternsMatching ==
    {j \in 1..Len(score_args.patterns) : score_args.patterns[j] = "match"}

\* C32: _calculate_score returns min(0.6, 0.2 x number of keywords that occur
\* in the prompt), plus 0.4 if at least one pattern matches: one pattern is
\* counted however many match, and a pattern that does not compile is passed
\* over.  Its list of signals is the keywords that hit, in the order of
\* their declaration, followed by the first pattern that matches.
C32_ScoreAndSignals ==
    score_ret # NoScore =>
        LET sig == score_ret.matched_keywords
            kwpart == IF 2 * KeywordsHit < 6 THEN 2 * KeywordsHit ELSE 6
        IN /\ score_ret.score =
                 kwpart + (IF PatternsMatching # {} THEN 4 ELSE 0)
           /\ Len(sig) = KeywordsHit + (IF PatternsMatching # {} THEN 1 ELSE 0)
           /\ \A i \in 1..KeywordsHit :
                 /\ sig[i].kind = "keyword"
                 /\ score_args.keywords[sig[i].ix]
                 /\ i > 1 => sig[i - 1].ix < sig[i].ix
           /\ PatternsMatching # {} =>
                 /\ sig[Len(sig)].kind = "pattern"
                 /\ sig[Len(sig)].ix \in PatternsMatching
                 /\ \A j \in PatternsMatching : sig[Len(sig)].ix <= j

C32_Witness ==
    /\ score_args.keywords = <<TRUE, FALSE, TRUE, TRUE>>
    /\ score_args.patterns = <<"invalid", "match">>
    /\ score_ret.score = 10
    /\ score_ret.matched_keywords =
          <<Signal("keyword", 1), Signal("keyword", 3), Signal("keyword", 4),
            Signal("pattern", 2)>>

\* the match_and_execute route has responded
MatchExecuteDone == via = "match_and_execute" /\ pc = "done"

\* C34: match_and_execute calls the executor only for a match that names a
\* space; an unmatched prompt is answered with success = false and
\* metadata.matched = false without any entry point being invoked; and in
\* every case, a lookup failure of the executor and a workflow result
\* without 'success' included, the route returns a SpaceOutput and does not
\* raise.
C34_MatchAndExecute ==
    /\ (via = "match_and_execute" /\ (space # "" \/ invoked > 0 \/ calls # <<>>)) =>
          /\ match_result.matched /\ match_result.space # ""
          /\ space = match_result.space
    /\ MatchExecuteDone =>
          /\ outcome = "returned" /\ http_status = 200
          /\ result.has_success
          /\ ~match_result.matched =>
                /\ ~result.success /\ result.outputAssets = <<>>
                /\ metadata = "unmatched"
                /\ invoked = 0 /\ calls = <<>> /\ space = ""
          /\ match_result.matched =>
                /\ space = match_result.space
                /\ metadata # "unmatched"
                /\ invoked <= 1
                /\ result.success => metadata = "matched"

C34_Witness ==
    /\ MatchExecuteDone /\ space = "product-swap"
    /\ entry_result = Returned(MetadataOnly) /\ invoked = 1
    /\ outcome = "returned" /\ ~result.success

\* nothing was recorded and the store was not reset since the caller drained
NothingSinceDrain == held.taken /\ held.mark = StoreMark

\* C39: draining does not consume and hands out copies: with no record and
\* no reset in between, a later call of get_progress_events and
\* get_image_events returns lists equal to those of the earlier call,
\* whatever the caller has done to the lists it got.
C39_DrainReturnsCopy ==
    NothingSinceDrain =>
        /\ get_progress_events = held.returned.progress
        /\ get_image_events = held.returned.images

C39_Witness ==
    /\ NothingSinceDrain /\ held.mutated
    /\ Len(held.returned.progress) >= 2 /\ held.returned.images # <<>>
    /\ held.progress.items = <<>>
    /\ get_progress_events = held.returned.progress

\* the key a call to provider has to be made with for this request
ExpectedKey(provider) ==
    IF provider = "gemini" THEN get_gemini_api_key(request_keys)
    ELSE get_openai_api_key(request_keys)

\* C31: once set_request_keys has set the Gemini (OpenAI) override of a
\* request, every chat and image-generation call of the request is made with
\* the override; the key of the environment is used only for a provider
\* without an override.
C31_OverrideUsed ==
    \A k \in keys_used : k.key = ExpectedKey(k.provider)

====
